---- MODULE Spec2Model ----
(***************************************************************************)
(* SearchMind retrieval store: the FAISS-backed VectorStore with its      *)
(* parallel metadata list, its two persisted artifacts (index.faiss and   *)
(* metadata.pkl), and the request handlers that mutate and read it        *)
(* (upload, delete, search, listing), together with process crash and     *)
(* restart.                                                                *)
(*                                                                         *)
(* Numbers: vectors are integer vectors in fixed point. A unit vector has *)
(* Euclidean length Unit; an inner product of two unit vectors is         *)
(* therefore Unit*Unit times the cosine.                                   *)
(***************************************************************************)
EXTENDS Integers, Sequences, FiniteSets, TLC

VARIABLES
    status,          \* "up": services constructed; "down": no process; "failed": startup raised
    index,           \* VectorStore.index: the stored vectors, in insertion order
    metadata_store,  \* VectorStore.metadata_store: the parallel list of metadata dicts
    disk_index,      \* the file INDEX_DIR/index.faiss
    disk_meta,       \* the file INDEX_DIR/metadata.pkl
    upload_files,    \* the files of UPLOAD_DIR, each <<resource_id, suffix>>
    inflight,        \* process_upload calls suspended after _save_file
    next_rid,        \* number of resource ids uuid4 has issued so far, plus one
    clock,           \* datetime.utcnow(), in ticks
    resp,            \* the outcome of the last operation
    faults,          \* number of faults (I/O errors, deaths inside save) so far
    deleted_ok       \* history: resource id -> chunk ids marked by its successful delete

vars == <<status, index, metadata_store, disk_index, disk_meta, upload_files,
          inflight, next_rid, clock, resp, faults, deleted_ok>>

-----------------------------------------------------------------------------
(* Bounds of the model *)

\* process_upload calls that get as far as issuing a resource id
MaxUploads == 2

\* largest k handed to VectorStore.search
MaxK == 2

\* I/O errors and deaths of the process inside a handler, in one behaviour
MaxFaults == 1

\* entries in the store when add_documents is called on its own
MaxStored == 3

\* documents in a batch when Reranker.rerank is called on its own
MaxBatch == 3

\* chunks of the largest document of the corpora searched
BigDocChunks == 12

-----------------------------------------------------------------------------
(* Arithmetic helpers *)

Min(a, b) == IF a < b THEN a ELSE b

ISqrt(n) == CHOOSE r \in 0..n : r * r <= n /\ n < (r + 1) * (r + 1)

RECURSIVE DotFrom(_, _, _)
DotFrom(a, b, i) ==
    IF i > Len(a) THEN 0 ELSE a[i] * b[i] + DotFrom(a, b, i + 1)

\* inner product, the metric of faiss.IndexFlatIP
Dot(a, b) == DotFrom(a, b, 1)

-----------------------------------------------------------------------------
(* Embedding *)

\* settings.EMBEDDING_DIMENSION, the dimension the index is built with; the
\* configuration has 384, the model a small dimension
EMBEDDING_DIMENSION == 2

\* a vector of the index's dimension from its leading coordinates
Pad(v) == [i \in 1..EMBEDDING_DIMENSION |-> IF i <= Len(v) THEN v[i] ELSE 0]

\* length of a unit vector in fixed point
Unit == 5

\* faiss.normalize_L2 of one row: divide by the Euclidean norm; a zero row is left alone
normalize_L2(v) ==
    LET norm == ISqrt(Dot(v, v))
    IN IF norm = 0 THEN v ELSE [i \in 1..Len(v) |-> (v[i] * Unit) \div norm]

\* SentenceTransformer.encode before normalisation: an opaque, deterministic text -> vector map
model_encode(text) ==
    Pad(CASE text = "alpha" -> <<10, 0>>
          [] text = "beta"  -> <<6, 8>>
          [] text = "gamma" -> <<0, 10>>
          [] text = "delta" -> <<8, 6>>
          [] text = ""      -> <<8, 6>>
          [] OTHER          -> <<0, 0>>)

\* Embedder.embed_texts: encode with normalize_embeddings=True
embed_texts(texts) == [i \in 1..Len(texts) |-> normalize_L2(model_encode(texts[i]))]

-----------------------------------------------------------------------------
(* Uploaded documents: a file name (a sequence of characters) and the      *)
(* chunks the processor and the chunker make of the file.                  *)

Chunk(page, text) == [page |-> page, text |-> text]

Doc(file_name, size_mb, chunks) ==
    [file_name |-> file_name, size_mb |-> size_mb, chunks |-> chunks]

\* the uploads the model draws from: a two-page PDF of three chunks, a one-chunk
\* DOCX, a PDF without text, a text file, a PDF over the size limit and a name
\* that ends in a dot
Docs ==
    { Doc(<<"a", ".", "p", "d", "f">>, 1,
          <<Chunk(1, "alpha"), Chunk(1, "beta"), Chunk(2, "gamma")>>),
      Doc(<<"b", ".", "D", "O", "C", "X">>, 1, <<Chunk(1, "delta")>>),
      Doc(<<"e", ".", "p", "d", "f">>, 1, <<>>),
      Doc(<<"n", ".", "t", "x", "t">>, 1, <<>>),
      Doc(<<"h", ".", "p", "d", "f">>, 51, <<>>),
      Doc(<<"g", ".", "p", "d", "f", ".">>, 1, <<Chunk(1, "alpha")>>) }

\* query vectors handed to VectorStore.search (not necessarily of unit length)
QueryVecs == { Pad(<<5, 0>>), Pad(<<6, 8>>), Pad(<<0, 5>>) }

ResourceIds == 1..MaxUploads

-----------------------------------------------------------------------------
(* Path.suffix and the staged file's name *)

RECURSIVE LastDot(_, _)
LastDot(name, i) ==
    IF i = 0 THEN 0 ELSE IF name[i] = "." THEN i ELSE LastDot(name, i - 1)

\* pathlib's Path(name).suffix: from the last dot on, empty when there is no
\* dot, when the last dot leads the name and when it ends the name
Suffix(name) ==
    LET d == LastDot(name, Len(name))
    IN IF d <= 1 \/ d = Len(name) THEN <<>> ELSE SubSeq(name, d, Len(name))

\* str.lower on the characters the model uses
LowerChar(c) ==
    CASE c = "P" -> "p" [] c = "D" -> "d" [] c = "F" -> "f"
      [] c = "O" -> "o" [] c = "C" -> "c" [] c = "X" -> "x"
      [] c = "A" -> "a" [] c = "B" -> "b" [] c = "E" -> "e"
      [] OTHER -> c

Lower(name) == [i \in 1..Len(name) |-> LowerChar(name[i])]

PdfExt == <<".", "p", "d", "f">>
DocxExt == <<".", "d", "o", "c", "x">>

-----------------------------------------------------------------------------
(* VectorStore: the in-memory index *)

\* one metadata dict, as process_upload builds it
Metadata(chunk_id, resource_id, file_name, page_number, text, uploaded_at, deleted) ==
    [chunk_id |-> chunk_id, resource_id |-> resource_id, file_name |-> file_name,
     page_number |-> page_number, text |-> text, uploaded_at |-> uploaded_at,
     deleted |-> deleted]

\* add_documents with the new entries put in front of the old ones
add_documents_prepending(idx, ms, embeddings, metadatas) ==
    IF Len(embeddings) # Len(metadatas)
    THEN [ok |-> FALSE, raised |-> "ValueError", index |-> idx, metadata_store |-> ms]
    ELSE [ok |-> TRUE, raised |-> "none",
          index |-> [i \in 1..Len(embeddings) |-> normalize_L2(embeddings[i])] \o idx,
          metadata_store |-> metadatas \o ms]

\* add_documents whose index.add takes rows of any dimension
add_documents_any_dimension(idx, ms, embeddings, metadatas) ==
    IF Len(embeddings) # Len(metadatas)
    THEN [ok |-> FALSE, raised |-> "ValueError", index |-> idx, metadata_store |-> ms]
    ELSE [ok |-> TRUE, raised |-> "none",
          index |-> idx \o [i \in 1..Len(embeddings) |-> normalize_L2(embeddings[i])],
          metadata_store |-> ms \o metadatas]

\* VectorStore.add_documents: the count check (ValueError), normalisation,
\* index.add (which refuses rows of another dimension with an AssertionError)
\* and metadata_store.extend
add_documents(idx, ms, embeddings, metadatas) ==
    IF Len(embeddings) # Len(metadatas)
    THEN [ok |-> FALSE, raised |-> "ValueError", index |-> idx, metadata_store |-> ms]
    ELSE IF \E i \in 1..Len(embeddings) : Len(embeddings[i]) # EMBEDDING_DIMENSION
    THEN [ok |-> FALSE, raised |-> "AssertionError", index |-> idx, metadata_store |-> ms]
    ELSE [ok |-> TRUE, raised |-> "none",
          index |-> idx \o [i \in 1..Len(embeddings) |-> normalize_L2(embeddings[i])],
          metadata_store |-> ms \o metadatas]

\* the position of the r-th largest score of s; of equal scores the lower
\* position comes first
ArgBest(s, r) ==
    CHOOSE i \in 1..Len(s) :
        Cardinality({j \in 1..Len(s) : s[j] > s[i] \/ (s[j] = s[i] /\ j < i)}) = r - 1

\* the k best positions of s with their scores, best first
TopHits(s, k) ==
    [r \in 1..k |-> LET i == ArgBest(s, r) IN [pos |-> i, score |-> s[i]]]

\* IndexFlatIP.search: the k positions of largest inner product with q, best
\* first, the lower position first among equal scores
faiss_search(idx, q, k) ==
    TopHits([i \in 1..Len(idx) |-> Dot(idx[i], q)], k)

\* the result loop without its test of the deleted flag
KeepHitIgnoringDeleted(ms, hit) == hit.pos <= Len(ms)

\* the result loop of VectorStore.search: a hit is kept when its position has a
\* metadata entry and that entry is not deleted
KeepHit(ms, hit) == hit.pos <= Len(ms) /\ ~ms[hit.pos].deleted

\* VectorStore.search
VS_search(idx, ms, query_embedding, k) ==
    IF Len(idx) = 0
    THEN <<>>
    ELSE LET q    == normalize_L2(query_embedding)
             kk   == Min(k, Len(idx))
             hits == faiss_search(idx, q, kk)
             kept == SelectSeq(hits, LAMBDA h : KeepHit(ms, h))
         IN [i \in 1..Len(kept) |->
                [metadata |-> ms[kept[i].pos], score |-> kept[i].score]]

\* the loop's test without `not metadata.get('deleted')`
DeleteMatchesAnyState(m, resource_id) == m.resource_id = resource_id

\* the test of VectorStore.delete_resource's loop
DeleteMatches(m, resource_id) == m.resource_id = resource_id /\ ~m.deleted

\* VectorStore.delete_resource, the marking loop: the metadata afterwards
MarkDeleted(ms, resource_id) ==
    [i \in 1..Len(ms) |->
        IF DeleteMatches(ms[i], resource_id)
        THEN [ms[i] EXCEPT !.deleted = TRUE]
        ELSE ms[i]]

\* deleted_count taken over every entry of the resource, marked before or not
DeletedCountOfAllEntries(ms, resource_id) ==
    Cardinality({i \in 1..Len(ms) : ms[i].resource_id = resource_id})

\* VectorStore.delete_resource, the marking loop: deleted_count
DeletedCount(ms, resource_id) ==
    Cardinality({i \in 1..Len(ms) : DeleteMatches(ms[i], resource_id)})

\* the positions of the live entries of a resource, in order
RECURSIVE LivePositions(_, _, _)
LivePositions(ms, resource_id, i) ==
    IF i > Len(ms) THEN <<>>
    ELSE IF ~ms[i].deleted /\ ms[i].resource_id = resource_id
         THEN <<i>> \o LivePositions(ms, resource_id, i + 1)
         ELSE LivePositions(ms, resource_id, i + 1)

\* the chunks of the resource, the last stored first
get_chunks_by_resource_newest_first(ms, resource_id) ==
    LET ps == LivePositions(ms, resource_id, 1)
    IN [j \in 1..Len(ps) |->
            [chunk_id |-> ms[ps[Len(ps) + 1 - j]].chunk_id,
             text |-> ms[ps[Len(ps) + 1 - j]].text,
             page_number |-> ms[ps[Len(ps) + 1 - j]].page_number]]

\* VectorStore.get_chunks_by_resource
get_chunks_by_resource(ms, resource_id) ==
    LET ps == LivePositions(ms, resource_id, 1)
    IN [j \in 1..Len(ps) |->
            [chunk_id |-> ms[ps[j]].chunk_id, text |-> ms[ps[j]].text,
             page_number |-> ms[ps[j]].page_number]]

\* the resource ids with an entry, deleted or not, in order of first appearance
RECURSIVE ResourceOrderIgnoringDeleted(_, _, _)
ResourceOrderIgnoringDeleted(ms, i, seen) ==
    IF i > Len(ms) THEN <<>>
    ELSE IF ms[i].resource_id \notin seen
         THEN <<i>> \o ResourceOrderIgnoringDeleted(ms, i + 1, seen \cup {ms[i].resource_id})
         ELSE ResourceOrderIgnoringDeleted(ms, i + 1, seen)

\* the resource ids with a live entry, in order of first appearance
RECURSIVE LiveResourceOrder(_, _, _)
LiveResourceOrder(ms, i, seen) ==
    IF i > Len(ms) THEN <<>>
    ELSE IF ~ms[i].deleted /\ ms[i].resource_id \notin seen
         THEN <<i>> \o LiveResourceOrder(ms, i + 1, seen \cup {ms[i].resource_id})
         ELSE LiveResourceOrder(ms, i + 1, seen)

\* VectorStore.get_all_resources: one summary per resource id with a live entry,
\* file name and upload time taken from its first live entry
get_all_resources(ms) ==
    LET firsts == LiveResourceOrder(ms, 1, {})
    IN [j \in 1..Len(firsts) |->
            LET m == ms[firsts[j]]
            IN [resource_id |-> m.resource_id, filename |-> m.file_name,
                num_chunks  |-> Len(LivePositions(ms, m.resource_id, 1)),
                uploaded_at |-> m.uploaded_at]]

-----------------------------------------------------------------------------
(* Persistence: the two artifacts *)

AbsentFile == [state |-> "absent", data |-> <<>>]
CorruptFile == [state |-> "corrupt", data |-> <<>>]
OkFile(data) == [state |-> "ok", data |-> data]

\* faiss.write_index of a flat index: d, ntotal, then the rows one after another
write_index(idx, d) ==
    <<d, Len(idx)>> \o
    [j \in 1..(d * Len(idx)) |-> idx[((j - 1) \div d) + 1][((j - 1) % d) + 1]]

\* read_index that forgets the second header field when it locates a row
read_index_off_by_one(data) ==
    LET d == data[1]
        n == data[2]
    IN [i \in 1..n |-> [c \in 1..d |-> data[1 + (i - 1) * d + c]]]

\* faiss.read_index: cut the rows out of the flat data again
read_index(data) ==
    LET d == data[1]
        n == data[2]
    IN [i \in 1..n |-> [c \in 1..d |-> data[2 + (i - 1) * d + c]]]

\* pickle.dump of the metadata list: each dict as the tuple of its values
pickle_dump(ms) ==
    [i \in 1..Len(ms) |->
        <<ms[i].chunk_id, ms[i].resource_id, ms[i].file_name, ms[i].page_number,
          ms[i].text, ms[i].uploaded_at, ms[i].deleted>>]

\* pickle.load that comes back with every deleted flag cleared
pickle_load_resetting_deleted(data) ==
    [i \in 1..Len(data) |->
        Metadata(data[i][1], data[i][2], data[i][3], data[i][4],
                 data[i][5], data[i][6], FALSE)]

\* pickle.load: the dicts back from the tuples
pickle_load(data) ==
    [i \in 1..Len(data) |->
        Metadata(data[i][1], data[i][2], data[i][3], data[i][4],
                 data[i][5], data[i][6], data[i][7])]

\* How far a save() gets: "done" is the whole method; the others are the places
\* where an I/O error or the death of the process ends it.
\*   none          before index.faiss is touched
\*   index_partial while index.faiss is being written
\*   between       after index.faiss is written, before metadata.pkl is opened
\*   meta_partial  after metadata.pkl is opened for writing (truncated), before it is whole
SavePoints == {"none", "index_partial", "between", "meta_partial", "done"}

\* save that writes metadata.pkl only and leaves index.faiss as it was
save_metadata_only(di, dm, idx, ms, point) ==
    IF point = "done"
    THEN [disk_index |-> di, disk_meta |-> OkFile(pickle_dump(ms))]
    ELSE [disk_index |-> di, disk_meta |-> dm]

\* VectorStore.save, run as far as `point`: the two files afterwards
save(di, dm, idx, ms, point) ==
    CASE point = "none" ->
            [disk_index |-> di, disk_meta |-> dm]
      [] point = "index_partial" ->
            [disk_index |-> CorruptFile, disk_meta |-> dm]
      [] point = "between" ->
            [disk_index |-> OkFile(write_index(idx, EMBEDDING_DIMENSION)), disk_meta |-> dm]
      [] point = "meta_partial" ->
            [disk_index |-> OkFile(write_index(idx, EMBEDDING_DIMENSION)),
             disk_meta  |-> CorruptFile]
      [] OTHER ->
            [disk_index |-> OkFile(write_index(idx, EMBEDDING_DIMENSION)),
             disk_meta  |-> OkFile(pickle_dump(ms))]

\* load that looks for index.faiss only before it reads the two files
load_checking_index_only(di, dm, idx, ms) ==
    IF di.state = "absent"
    THEN [result |-> "not_found", index |-> idx, metadata_store |-> ms]
    ELSE IF di.state = "corrupt"
    THEN [result |-> "error", index |-> idx, metadata_store |-> ms]
    ELSE IF dm.state # "ok"
    THEN [result |-> "error", index |-> read_index(di.data), metadata_store |-> ms]
    ELSE [result |-> "ok", index |-> read_index(di.data),
          metadata_store |-> pickle_load(dm.data)]

\* VectorStore.load on a store holding (idx, ms): FileNotFoundError when either
\* file is absent; otherwise index.faiss is read and assigned, then metadata.pkl
load(di, dm, idx, ms) ==
    IF di.state = "absent" \/ dm.state = "absent"
    THEN [result |-> "not_found", index |-> idx, metadata_store |-> ms]
    ELSE IF di.state = "corrupt"
    THEN [result |-> "error", index |-> idx, metadata_store |-> ms]
    ELSE IF dm.state = "corrupt"
    THEN [result |-> "error", index |-> read_index(di.data), metadata_store |-> ms]
    ELSE [result |-> "ok", index |-> read_index(di.data),
          metadata_store |-> pickle_load(dm.data)]

-----------------------------------------------------------------------------
(* The handlers' environment: what can go wrong inside one call *)

\* settings.MAX_FILE_SIZE_MB
MAX_FILE_SIZE_MB == 50

NoFault == [kind |-> "none", point |-> "done"]

\* an I/O error raised by save(), or the death of the process inside save(),
\* at one of the places before the method is complete
SaveFaults ==
    { [kind |-> kd, point |-> pt] :
        kd \in {"error", "crash"}, pt \in SavePoints \ {"done"} }

\* the processor, the chunker or the embedder raises an exception that is not
\* a ValueError
ExtractFault == [kind |-> "extract", point |-> "none"]

\* the processor, the chunker or the embedder raises a ValueError (python-docx on
\* a package that is not a Word file, a decoding or validation error)
ExtractValueFault == [kind |-> "extract_value", point |-> "none"]

\* Path.unlink raises
UnlinkFault == [kind |-> "unlink", point |-> "done"]

\* the embedder hands back one row fewer than the texts it was given
RowsFault == [kind |-> "rows", point |-> "none"]

\* the embedder hands back rows of another dimension than the index has
DimensionFault == [kind |-> "dimension", point |-> "none"]

\* what the embedder hands back for the texts when `fault` happens
embedded(texts, fault) ==
    LET rows == embed_texts(texts)
    IN IF fault.kind = "rows" THEN SubSeq(rows, 1, Len(rows) - 1)
       ELSE IF fault.kind = "dimension"
            THEN [i \in 1..Len(rows) |-> Append(rows[i], 0)]
            ELSE rows

\* the fault counter after a call in which `fault` happened
Count(n, fault) == IF fault.kind = "none" THEN n ELSE n + 1

\* a fault can still happen
Allowed(fault) == fault.kind = "none" \/ faults < MaxFaults

-----------------------------------------------------------------------------
(* Initial state: a first start in an empty data directory *)

\* the Settings a process is started with, as far as lifespan reads them:
\* config.py declares no USE_OCR, and a Settings with the field has it off or on
StartupSettings == { [USE_OCR |-> v] : v \in {"undefined", "False", "True"} }

\* lifespan up to the construction of the services: DocumentProcessor() reads
\* settings.USE_OCR first, and without the field the AttributeError ends the
\* startup before any service exists; a failure to set up OCR is swallowed
lifespan(settings) == IF settings.USE_OCR = "undefined" THEN "failed" ELSE "up"

Init ==
    /\ \E settings \in StartupSettings :
          /\ status = lifespan(settings)
          /\ resp = [op |-> "start",
                     result |-> IF lifespan(settings) = "up" THEN "not_found"
                                ELSE "no_setting",
                     after |-> "none"]
    /\ index = <<>>
    /\ metadata_store = <<>>
    /\ disk_index = AbsentFile
    /\ disk_meta = AbsentFile
    /\ upload_files = {}
    /\ inflight = {}
    /\ next_rid = 1
    /\ clock = 1
    /\ faults = 0
    /\ deleted_ok = {}

-----------------------------------------------------------------------------
(* UploadService.process_upload *)

\* the metadata process_upload prepares for the chunks of one document
PrepareMetadata(rid, doc, uploaded_at) ==
    [j \in 1..Len(doc.chunks) |->
        Metadata(<<rid, j>>, rid, doc.file_name, doc.chunks[j].page,
                 doc.chunks[j].text, uploaded_at, FALSE)]

ChunkTexts(doc) == [j \in 1..Len(doc.chunks) |-> doc.chunks[j].text]

\* process_upload up to the end of _save_file: the validations, then the file
\* is staged under the new resource id. The awaits of _save_file are the only
\* places where the handler yields to other requests.
UploadRejected(doc) ==
    /\ status = "up"
    /\ \/ Lower(Suffix(doc.file_name)) \notin {PdfExt, DocxExt}
       \/ doc.size_mb > MAX_FILE_SIZE_MB
    /\ resp' = [op |-> "upload", code |-> 400, error |-> "validation",
                resource_id |-> 0, num_chunks |-> 0]
    /\ UNCHANGED <<status, index, metadata_store, disk_index, disk_meta,
                   upload_files, inflight, next_rid, clock, faults, deleted_ok>>

UploadStage(doc) ==
    /\ status = "up"
    /\ next_rid <= MaxUploads
    /\ Lower(Suffix(doc.file_name)) \in {PdfExt, DocxExt}
    /\ doc.size_mb <= MAX_FILE_SIZE_MB
    /\ upload_files' = upload_files \cup {<<next_rid, Suffix(doc.file_name)>>}
    /\ inflight' = inflight \cup {[resource_id |-> next_rid, doc |-> doc]}
    /\ next_rid' = next_rid + 1
    /\ UNCHANGED <<status, index, metadata_store, disk_index, disk_meta,
                   clock, resp, faults, deleted_ok>>

\* what can go wrong in process_upload from the try block on
UploadFaults ==
    {NoFault, ExtractFault, ExtractValueFault, RowsFault, DimensionFault} \cup SaveFaults

\* process_upload from the try block on, which has no await: extract, chunk,
\* embed, add_documents, save, and the except block's clean-up
UploadIndex(req, fault) ==
    LET rid   == req.resource_id
        doc   == req.doc
        file  == <<rid, Suffix(doc.file_name)>>
        added == add_documents(index, metadata_store, embedded(ChunkTexts(doc), fault),
                               PrepareMetadata(rid, doc, clock))
        files == save(disk_index, disk_meta, added.index, added.metadata_store,
                      fault.point)
    IN
    /\ status = "up"
    /\ req \in inflight
    /\ fault \in UploadFaults
    /\ fault \in {RowsFault, DimensionFault} => doc.chunks # <<>>
    /\ Allowed(fault)
    /\ faults' = Count(faults, fault)
    /\ UNCHANGED next_rid
    /\ IF fault.kind \in {"extract", "extract_value"} \/ doc.chunks = <<>> \/ ~added.ok
       THEN \* an exception before anything is added: the route answers a
            \* ValueError with 400 and every other exception with 500
            /\ fault.kind \in {"extract", "extract_value", "none", "rows", "dimension"}
            /\ upload_files' = upload_files \ {file}
            /\ inflight' = inflight \ {req}
            /\ resp' = [op |-> "upload",
                        code |-> IF fault.kind = "extract" THEN 500
                                 ELSE IF fault.kind = "extract_value" THEN 400
                                 ELSE IF doc.chunks = <<>> THEN 400
                                 ELSE IF added.raised = "ValueError" THEN 400
                                 ELSE 500,
                        error |-> IF fault.kind \in {"extract", "extract_value"}
                                  THEN "extract"
                                  ELSE IF doc.chunks = <<>> THEN "no_text"
                                  ELSE IF added.raised = "ValueError"
                                       THEN "count_mismatch"
                                       ELSE "dimension_mismatch",
                        resource_id |-> rid, num_chunks |-> 0]
            /\ UNCHANGED <<status, index, metadata_store, disk_index, disk_meta,
                           clock, deleted_ok>>
       ELSE /\ clock' = clock + 1
            /\ disk_index' = files.disk_index
            /\ disk_meta' = files.disk_meta
            /\ UNCHANGED deleted_ok
            /\ CASE fault.kind = "none" ->
                        /\ index' = added.index
                        /\ metadata_store' = added.metadata_store
                        /\ inflight' = inflight \ {req}
                        /\ resp' = [op |-> "upload", code |-> 200, error |-> "none",
                                    resource_id |-> rid,
                                    num_chunks |-> Len(doc.chunks)]
                        /\ UNCHANGED <<status, upload_files>>
                 [] fault.kind = "error" ->
                        /\ index' = added.index
                        /\ metadata_store' = added.metadata_store
                        /\ upload_files' = upload_files \ {file}
                        /\ inflight' = inflight \ {req}
                        /\ resp' = [op |-> "upload", code |-> 500, error |-> "save",
                                    resource_id |-> rid, num_chunks |-> 0]
                        /\ UNCHANGED status
                 [] OTHER ->
                        /\ status' = "down"
                        /\ index' = <<>>
                        /\ metadata_store' = <<>>
                        /\ inflight' = {}
                        /\ resp' = [op |-> "crash", during |-> "save", point |-> fault.point]
                        /\ UNCHANGED upload_files

-----------------------------------------------------------------------------
(* ResourceService.delete_resource, with VectorStore.delete_resource inside *)

\* the file the service's loop over ['.pdf', '.docx'] finds, as a set (empty or one file)
FileToDelete(files, rid) ==
    IF <<rid, PdfExt>> \in files THEN {<<rid, PdfExt>>}
    ELSE IF <<rid, DocxExt>> \in files THEN {<<rid, DocxExt>>}
    ELSE {}

\* the chunk ids of the entries the marking loop changes
MarkedChunkIds(ms, rid) ==
    {ms[i].chunk_id : i \in {j \in 1..Len(ms) : DeleteMatches(ms[j], rid)}}

Delete(rid, fault) ==
    LET count  == DeletedCount(metadata_store, rid)
        marked == MarkDeleted(metadata_store, rid)
        files  == save(disk_index, disk_meta, index, marked, fault.point)
        victim == FileToDelete(upload_files, rid)
    IN
    /\ status = "up"
    /\ Allowed(fault)
    /\ faults' = Count(faults, fault)
    /\ UNCHANGED <<next_rid, clock>>
    /\ IF count = 0
       THEN \* nothing marked, nothing saved: ValueError, answered 404
            /\ fault = NoFault
            /\ metadata_store' = marked
            /\ resp' = [op |-> "delete", resource_id |-> rid, code |-> 404,
                        returned |-> TRUE, count |-> 0]
            /\ UNCHANGED <<status, index, inflight, disk_index, disk_meta, upload_files,
                           deleted_ok>>
       ELSE /\ fault \in {NoFault, UnlinkFault} \cup SaveFaults
            /\ fault = UnlinkFault => victim # {}
            /\ disk_index' = files.disk_index
            /\ disk_meta' = files.disk_meta
            /\ CASE fault.kind = "none" ->
                        /\ metadata_store' = marked
                        /\ upload_files' = upload_files \ victim
                        /\ deleted_ok' = deleted_ok \cup
                              {[resource_id |-> rid,
                                chunk_ids |-> MarkedChunkIds(metadata_store, rid)]}
                        /\ resp' = [op |-> "delete", resource_id |-> rid, code |-> 200,
                                    returned |-> TRUE, count |-> count]
                        /\ UNCHANGED <<status, index, inflight>>
                 [] fault.kind = "unlink" ->
                        /\ metadata_store' = marked
                        /\ deleted_ok' = deleted_ok \cup
                              {[resource_id |-> rid,
                                chunk_ids |-> MarkedChunkIds(metadata_store, rid)]}
                        /\ resp' = [op |-> "delete", resource_id |-> rid, code |-> 500,
                                    returned |-> TRUE, count |-> count]
                        /\ UNCHANGED <<status, index, inflight, upload_files>>
                 [] fault.kind = "error" ->
                        /\ metadata_store' = marked
                        /\ resp' = [op |-> "delete", resource_id |-> rid, code |-> 500,
                                    returned |-> FALSE, count |-> 0]
                        /\ UNCHANGED <<status, index, inflight, upload_files, deleted_ok>>
                 [] OTHER ->
                        /\ status' = "down"
                        /\ index' = <<>>
                        /\ metadata_store' = <<>>
                        /\ inflight' = {}
                        /\ resp' = [op |-> "crash", during |-> "save", point |-> fault.point]
                        /\ UNCHANGED <<upload_files, deleted_ok>>

-----------------------------------------------------------------------------
(* The read operations *)

\* VectorStore.search with a query vector and a k
Search(q, k) ==
    /\ status = "up"
    /\ resp' = [op |-> "search", query |-> q, k |-> k,
                results |-> VS_search(index, metadata_store, q, k)]
    /\ UNCHANGED <<status, index, metadata_store, disk_index, disk_meta, upload_files,
                   inflight, next_rid, clock, faults, deleted_ok>>

\* ResourceService.get_resource_chunks and the route over it: ValueError,
\* answered 404, when the store returns no chunk; else one ChunkDetail per chunk
get_resource_chunks_never_missing(ms, resource_id) ==
    [code |-> 200, chunks |-> get_chunks_by_resource(ms, resource_id)]

get_resource_chunks(ms, resource_id) ==
    LET chunks_data == get_chunks_by_resource(ms, resource_id)
    IN IF chunks_data = <<>>
       THEN [code |-> 404, chunks |-> <<>>]
       ELSE [code |-> 200,
             chunks |-> [j \in 1..Len(chunks_data) |->
                            [chunk_id |-> chunks_data[j].chunk_id,
                             text |-> chunks_data[j].text,
                             page_number |-> chunks_data[j].page_number]]]

\* ResourceService.get_all_resources: one Resource per summary of the store
RS_get_all_resources(ms) ==
    LET resources_data == get_all_resources(ms)
    IN [j \in 1..Len(resources_data) |->
            [resource_id |-> resources_data[j].resource_id,
             filename |-> resources_data[j].filename,
             num_chunks |-> resources_data[j].num_chunks,
             uploaded_at |-> resources_data[j].uploaded_at]]

\* all_resources[offset:offset + limit]
slice(seq, offset, limit) ==
    LET start == Min(offset, Len(seq))
        stop  == Min(offset + limit, Len(seq))
    IN IF stop <= start THEN <<>> ELSE SubSeq(seq, start + 1, stop)

\* has_more of the listing
list_has_more_inclusive(offset, limit, total) == offset + limit <= total

list_has_more(offset, limit, total) == offset + limit < total

\* the handler of GET /resources: PaginatedResourcesResponse
list_resources(ms, offset, limit) ==
    LET all_resources == RS_get_all_resources(ms)
        total == Len(all_resources)
    IN [resources |-> slice(all_resources, offset, limit),
        total |-> total, offset |-> offset, limit |-> limit,
        has_more |-> list_has_more(offset, limit, total)]

\* the handler of GET /resources with the query parameters offset and limit
ListResources(offset, limit) ==
    /\ status = "up"
    /\ resp' = [op |-> "list", offset |-> offset, limit |-> limit,
                all_resources |-> get_all_resources(metadata_store),
                response |-> list_resources(metadata_store, offset, limit)]
    /\ UNCHANGED <<status, index, metadata_store, disk_index, disk_meta, upload_files,
                   inflight, next_rid, clock, faults, deleted_ok>>

\* the handler of GET /resources/{resource_id}/chunks
GetChunks(rid) ==
    LET out == get_resource_chunks(metadata_store, rid)
    IN
    /\ status = "up"
    /\ resp' = [op |-> "chunks", resource_id |-> rid,
                code |-> out.code, chunks |-> out.chunks]
    /\ UNCHANGED <<status, index, metadata_store, disk_index, disk_meta, upload_files,
                   inflight, next_rid, clock, faults, deleted_ok>>

-----------------------------------------------------------------------------
(* The process: death and start *)

\* the process dies while no handler is in its synchronous part
Crash ==
    /\ status = "up"
    /\ status' = "down"
    /\ index' = <<>>
    /\ metadata_store' = <<>>
    /\ inflight' = {}
    /\ resp' = [op |-> "crash", during |-> "idle", point |-> "none"]
    /\ UNCHANGED <<disk_index, disk_meta, upload_files, next_rid, clock, faults,
                   deleted_ok>>

\* VectorStore.__init__ with _load_if_exists, in lifespan: an empty index, then
\* load(); FileNotFoundError is swallowed, any other exception ends the startup
Start ==
    LET loaded == load(disk_index, disk_meta, <<>>, <<>>)
    IN
    /\ status = "down"
    /\ status' = IF loaded.result = "error" THEN "failed" ELSE "up"
    /\ index' = IF loaded.result = "error" THEN <<>> ELSE loaded.index
    /\ metadata_store' = IF loaded.result = "error" THEN <<>> ELSE loaded.metadata_store
    /\ resp' = [op |-> "start", result |-> loaded.result,
                after |-> IF resp.op = "crash" THEN resp.during ELSE "none"]
    /\ UNCHANGED <<disk_index, disk_meta, upload_files, inflight, next_rid, clock,
                   faults, deleted_ok>>

-----------------------------------------------------------------------------

\* the handlers that change the store or the files, and the process itself
Next ==
    \/ \E doc \in Docs : UploadRejected(doc)
    \/ \E doc \in Docs : UploadStage(doc)
    \/ \E req \in inflight, fault \in UploadFaults : UploadIndex(req, fault)
    \/ \E rid \in ResourceIds, fault \in {NoFault, UnlinkFault} \cup SaveFaults :
            Delete(rid, fault)
    \/ Crash
    \/ Start

\* the read handlers
Reads ==
    \/ \E q \in QueryVecs, k \in 1..MaxK : Search(q, k)
    \/ \E offset \in 0..1, limit \in 1..2 : ListResources(offset, limit)
    \/ \E rid \in ResourceIds : GetChunks(rid)

NextWithReads == Next \/ Reads

Spec == Init /\ [][Next]_vars

SpecWithReads == Init /\ [][NextWithReads]_vars

-----------------------------------------------------------------------------
(* VectorStore.add_documents called on its own, with any arguments *)

\* rows a caller can hand over: of the index's dimension or of another one
RawVecs == { <<3>>, <<3, 4>>, <<0, 7>>, <<1, 2, 2>>, <<2, 3, 6>>, <<1, 1, 1, 1>> }

\* metadata dicts a caller can hand over
MetaPool ==
    { Metadata(<<7, 1>>, 7, <<"x", ".", "p", "d", "f">>, 1, "alpha", 1, FALSE),
      Metadata(<<8, 1>>, 8, <<"y", ".", "d", "o", "c", "x">>, 2, "beta", 2, FALSE) }

\* the sequences over S of length 0, 1 or 2
UpToTwo(S) == {<<>>} \cup {<<a>> : a \in S} \cup {<<a, b>> : a \in S, b \in S}

\* one call of add_documents; a ValueError or the refusal of index.add is the
\* result ok = FALSE
AddDocuments(embeddings, metadatas) ==
    LET added == add_documents(index, metadata_store, embeddings, metadatas)
    IN
    /\ status = "up"
    /\ Len(index) + Len(embeddings) <= MaxStored
    /\ index' = added.index
    /\ metadata_store' = added.metadata_store
    /\ resp' = [op |-> "add_documents", ok |-> added.ok,
                embeddings |-> embeddings, metadatas |-> metadatas]
    /\ UNCHANGED <<status, disk_index, disk_meta, upload_files, inflight, next_rid,
                   clock, faults, deleted_ok>>

NextAddDocuments ==
    \E embeddings \in UpToTwo(RawVecs), metadatas \in UpToTwo(MetaPool) :
        AddDocuments(embeddings, metadatas)

SpecAddDocuments == Init /\ [][NextAddDocuments]_vars

-----------------------------------------------------------------------------
(* Reranker.rerank *)

Max(a, b) == IF a > b THEN a ELSE b

RECURSIVE GCD(_, _)
GCD(a, b) == IF b = 0 THEN a ELSE GCD(b, a % b)

\* the quotient n / d (n >= 0, d > 0) as a fraction in lowest terms
Frac(n, d) == LET g == GCD(n, d) IN [num |-> n \div g, den |-> d \div g]

FracLess(a, b) == a.num * b.den < b.num * a.den

\* the cross-encoder: an opaque map from (query, text) to a logit. The model
\* draws it from three: graded (all logits of a batch differ), flat (all are
\* equal) and tied (some are equal)
Scorers == {"graded", "flat", "tied"}

cross_encoder(scorer, query, text) ==
    CASE scorer = "graded" ->
            (CASE text = "alpha" -> -3 [] text = "beta" -> 2
               [] text = "gamma" -> 7  [] OTHER -> 0)
            + (IF text = query THEN 11 ELSE 0)
      [] scorer = "flat" -> 4
      [] OTHER -> IF text = "gamma" THEN 5 ELSE 1

\* self.model.predict(pairs): one logit per pair, in one call
model_predict(scorer, pairs) ==
    [i \in 1..Len(pairs) |-> cross_encoder(scorer, pairs[i][1], pairs[i][2])]

SeqMin(xs) == CHOOSE m \in {xs[i] : i \in 1..Len(xs)} : \A i \in 1..Len(xs) : m <= xs[i]
SeqMax(xs) == CHOOSE m \in {xs[i] : i \in 1..Len(xs)} : \A i \in 1..Len(xs) : m >= xs[i]

\* the normalisation that answers 0.5 for every batch without a score range
normalized_score_always_half(score, min_score, score_range, n) ==
    IF score_range > 0
    THEN Frac(score - min_score, score_range)
    ELSE Frac(1, 2)

\* the body of rerank's loop: min-max normalisation, 1.0 for a batch of one
\* document and 0.5 for a larger batch without a score range
normalized_score(score, min_score, score_range, n) ==
    IF score_range > 0
    THEN Frac(score - min_score, score_range)
    ELSE IF n = 1 THEN Frac(1, 1) ELSE Frac(1, 2)

\* a sort by descending rerank_score that puts the later of two equal
\* documents first
sorted_desc_reversing_ties(docs) ==
    LET n == Len(docs)
        place == [i \in 1..n |->
                    1 + Cardinality({j \in 1..n :
                            \/ FracLess(docs[i].rerank_score, docs[j].rerank_score)
                            \/ (docs[j].rerank_score = docs[i].rerank_score /\ j > i)})]
    IN [r \in 1..n |-> docs[CHOOSE i \in 1..n : place[i] = r]]

\* sorted(documents, key=rerank_score, reverse=True): descending, and stable
\* (documents of equal score keep their order)
sorted_desc(docs) ==
    LET n == Len(docs)
        place == [i \in 1..n |->
                    1 + Cardinality({j \in 1..n :
                            \/ FracLess(docs[i].rerank_score, docs[j].rerank_score)
                            \/ (docs[j].rerank_score = docs[i].rerank_score /\ j < i)})]
    IN [r \in 1..n |-> docs[CHOOSE i \in 1..n : place[i] = r]]

\* Python's seq[start:stop] for integer bounds
PySlice(seq, start, stop) ==
    LET n == Len(seq)
        clamp(x) == IF x < 0 THEN Max(0, n + x) ELSE Min(x, n)
        lo == clamp(start)
        hi == clamp(stop)
    IN IF lo >= hi THEN <<>> ELSE SubSeq(seq, lo + 1, hi)

\* a rerank that sorts the documents and leaves the vector scores where they
\* were in its input
rerank_leaving_vector_scores(scorer, query, documents, top_k) ==
    IF documents = <<>>
    THEN <<>>
    ELSE LET pairs  == [i \in 1..Len(documents) |-> <<query, documents[i].text>>]
             scores == model_predict(scorer, pairs)
             min_score == SeqMin(scores)
             score_range == SeqMax(scores) - min_score
             scored == [i \in 1..Len(documents) |->
                          [text |-> documents[i].text,
                           metadata |-> documents[i].metadata,
                           vector_score |-> documents[i].vector_score,
                           rerank_score |-> normalized_score(scores[i], min_score,
                                                score_range, Len(documents))]]
             sorted == PySlice(sorted_desc(scored), 0, top_k)
         IN [i \in 1..Len(sorted) |->
                [sorted[i] EXCEPT !.vector_score = documents[i].vector_score]]

\* Reranker.rerank
rerank(scorer, query, documents, top_k) ==
    IF documents = <<>>
    THEN <<>>
    ELSE LET pairs  == [i \in 1..Len(documents) |-> <<query, documents[i].text>>]
             scores == model_predict(scorer, pairs)
             min_score == SeqMin(scores)
             max_score == SeqMax(scores)
             score_range == max_score - min_score
             scored == [i \in 1..Len(documents) |->
                          [text |-> documents[i].text,
                           metadata |-> documents[i].metadata,
                           vector_score |-> documents[i].vector_score,
                           rerank_score |-> normalized_score(scores[i], min_score,
                                                score_range, Len(documents))]]
         IN PySlice(sorted_desc(scored), 0, top_k)

\* the calls of self.model.predict one rerank makes: the sizes of their batches
predict_calls(documents) == IF documents = <<>> THEN <<>> ELSE <<Len(documents)>>

-----------------------------------------------------------------------------
(* Reranker.rerank called on its own *)

Queries == {"alpha", "gamma"}

\* documents as SearchService.search builds them from recalled entries
RerankPool ==
    { [text |-> t, vector_score |-> 3,
       metadata |-> Metadata(<<9, t>>, 9, <<"z", ".", "p", "d", "f">>, 1, t, 1, FALSE)] :
        t \in {"alpha", "beta", "gamma", "delta"} }

\* the sequences over S without repetition, of length up to n
RECURSIVE Batches(_, _)
Batches(S, n) ==
    IF n = 0 THEN {<<>>}
    ELSE LET shorter == Batches(S, n - 1)
         IN shorter \cup
            UNION { {Append(b, x) : x \in S \ {b[i] : i \in 1..Len(b)}} :
                        b \in {c \in shorter : Len(c) = n - 1} }

\* a call about to be made: the cross-encoder in use and the arguments
InitRerank ==
    /\ status = "up"
    /\ index = <<>>
    /\ metadata_store = <<>>
    /\ disk_index = AbsentFile
    /\ disk_meta = AbsentFile
    /\ upload_files = {}
    /\ inflight = {}
    /\ next_rid = 1
    /\ clock = 1
    /\ faults = 0
    /\ deleted_ok = {}
    /\ \E scorer \in Scorers, query \in Queries,
          documents \in Batches(RerankPool, MaxBatch), top_k \in 0..(MaxBatch + 1) :
            resp = [op |-> "rerank_call", scorer |-> scorer, query |-> query,
                    documents |-> documents, top_k |-> top_k]

Rerank ==
    /\ resp.op = "rerank_call"
    /\ resp' = [op |-> "rerank", scorer |-> resp.scorer, query |-> resp.query,
                documents |-> resp.documents, top_k |-> resp.top_k,
                result |-> rerank(resp.scorer, resp.query, resp.documents, resp.top_k),
                predict_calls |-> predict_calls(resp.documents)]
    /\ UNCHANGED <<status, index, metadata_store, disk_index, disk_meta, upload_files,
                   inflight, next_rid, clock, faults, deleted_ok>>

NextRerank == Rerank

SpecRerank == InitRerank /\ [][NextRerank]_vars

-----------------------------------------------------------------------------
(* SearchService.search *)

\* the floor of candidates_needed
CandidateFloor == 50

\* the buffer added to offset + limit
RerankBuffer == 10

\* file_name.split(".")[-1]: what follows the last dot, the whole name when
\* there is no dot
LastPart(name) == SubSeq(name, LastDot(name, Len(name)) + 1, Len(name))

\* needle in hay, for strings
Contains(hay, needle) ==
    \E i \in 0..(Len(hay) - Len(needle)) : SubSeq(hay, i + 1, i + Len(needle)) = needle

\* the filters dict as the set of its <<key, value>> items; None and {} are
\* the empty set
HasKey(filters, key) == \E f \in filters : f[1] = key
Get(filters, key) == (CHOOSE f \in filters : f[1] = key)[2]

\* the type test comparing the extension as it is written
KeepCandidateCaseSensitive(metadata, filters) ==
    /\ HasKey(filters, "type") =>
          LastPart(metadata.file_name) = Lower(Get(filters, "type"))
    /\ HasKey(filters, "file_name") =>
          Contains(Lower(metadata.file_name), Lower(Get(filters, "file_name")))

\* the body of _apply_filters' loop: TRUE when the candidate is appended
KeepCandidate(metadata, filters) ==
    /\ HasKey(filters, "type") =>
          Lower(LastPart(metadata.file_name)) = Lower(Get(filters, "type"))
    /\ HasKey(filters, "file_name") =>
          Contains(Lower(metadata.file_name), Lower(Get(filters, "file_name")))

\* SearchService._apply_filters
apply_filters(results, filters) ==
    SelectSeq(results, LAMBDA r : KeepCandidate(r.metadata, filters))

\* candidates_needed without its floor
candidates_needed_without_floor(offset, limit) == offset + limit + RerankBuffer

candidates_needed(offset, limit) == Max(CandidateFloor, offset + limit + RerankBuffer)

\* rerank_top_k without the buffer
rerank_top_k_without_buffer(n, offset, limit) == Min(n, offset + limit)

rerank_top_k(n, offset, limit) == Min(n, offset + limit + RerankBuffer)

\* has_more that counts the last result of the reranked sequence as one more
has_more_inclusive(end_idx, n) == end_idx <= n

has_more(end_idx, n) == end_idx < n

\* the early response that forgets the requested offset
empty_response_resetting_offset(query, offset, limit) ==
    [query |-> query, results |-> <<>>, total_found |-> 0, has_more |-> FALSE,
     offset |-> 0, limit |-> limit]

\* the response returned when no candidate is left
empty_response(query, offset, limit) ==
    [query |-> query, results |-> <<>>, total_found |-> 0, has_more |-> FALSE,
     offset |-> offset, limit |-> limit]

\* one entry of the record of calls a search makes
Call(fn, n, k) == [fn |-> fn, n |-> n, k |-> k]

\* SearchService.search on the store (idx, ms) with the cross-encoder scorer:
\* the response, the calls made to the embedder, the store, the filter and the
\* reranker, in order, and the documents handed to the reranker
SearchService_search(idx, ms, scorer, query, filters, offset, limit) ==
    LET k         == candidates_needed(offset, limit)
        query_embedding == embed_texts(<<query>>)[1]
        recalled  == VS_search(idx, ms, query_embedding, k)
        initial_results == IF filters # {} THEN apply_filters(recalled, filters)
                           ELSE recalled
        calls1    == <<Call("embed_query", 1, 0), Call("vector_store.search", 1, k)>>
                     \o (IF filters # {}
                         THEN <<Call("_apply_filters", Len(recalled), 0)>> ELSE <<>>)
    IN IF initial_results = <<>>
       THEN [response |-> empty_response(query, offset, limit), calls |-> calls1,
             documents |-> <<>>]
       ELSE LET documents == [i \in 1..Len(initial_results) |->
                                 [text |-> initial_results[i].metadata.text,
                                  metadata |-> initial_results[i].metadata,
                                  vector_score |-> initial_results[i].score]]
                top_k    == rerank_top_k(Len(documents), offset, limit)
                reranked == rerank(scorer, query, documents, top_k)
                end_idx  == offset + limit
                paginated_results == PySlice(reranked, offset, end_idx)
                search_results ==
                    [i \in 1..Len(paginated_results) |->
                        LET doc == paginated_results[i]
                        IN [text |-> doc.text,
                            metadata |-> [file_name |-> doc.metadata.file_name,
                                          page_number |-> doc.metadata.page_number,
                                          resource_id |-> doc.metadata.resource_id,
                                          chunk_id |-> doc.metadata.chunk_id],
                            rerank_score |-> doc.rerank_score,
                            vector_score |-> doc.vector_score]]
                preds == predict_calls(documents)
            IN [response |->
                    [query |-> query, results |-> search_results,
                     total_found |-> Len(reranked),
                     has_more |-> has_more(end_idx, Len(reranked)),
                     offset |-> offset, limit |-> limit],
                calls |-> calls1 \o <<Call("rerank", Len(documents), top_k)>>
                         \o [i \in 1..Len(preds) |-> Call("predict", preds[i], 0)],
                documents |-> documents]

\* a search that hands out no more than top_k results
search_truncating_to_top_k(idx, ms, scorer, query, filters, top_k, offset, limit) ==
    LET out == SearchService_search(idx, ms, scorer, query, filters, offset, limit)
    IN [out EXCEPT !.response.results = SubSeq(@, 1, Min(Len(@), top_k))]

\* SearchService.search with all its parameters: top_k is accepted and read
\* nowhere in the body
SearchService_search_with_top_k(idx, ms, scorer, query, filters, top_k, offset, limit) ==
    SearchService_search(idx, ms, scorer, query, filters, offset, limit)

-----------------------------------------------------------------------------
(* SearchService.search on the corpora the model draws from *)

ChunkTextCycle == <<"alpha", "beta", "gamma", "delta">>

\* the documents of the corpora, in the order they were uploaded: a PDF of
\* three chunks, a one-chunk DOCX and a PDF of BigDocChunks chunks
SearchDocs ==
    << Doc(<<"a", ".", "p", "d", "f">>, 1,
           <<Chunk(1, "alpha"), Chunk(1, "beta"), Chunk(2, "gamma")>>),
       Doc(<<"b", ".", "D", "O", "C", "X">>, 1, <<Chunk(1, "delta")>>),
       Doc(<<"c", ".", "p", "d", "f">>, 2,
           [j \in 1..BigDocChunks |-> Chunk(j, ChunkTextCycle[((j - 1) % 4) + 1])]) >>

\* the store after the first n documents were uploaded, one after the other
RECURSIVE Ingested(_)
Ingested(n) ==
    IF n = 0
    THEN [ok |-> TRUE, raised |-> "none", index |-> <<>>, metadata_store |-> <<>>]
    ELSE LET before == Ingested(n - 1)
         IN add_documents(before.index, before.metadata_store,
                          embed_texts(ChunkTexts(SearchDocs[n])),
                          PrepareMetadata(n, SearchDocs[n], n))

\* ms after delete_resource of every resource id from r down to 1 that is in gone
RECURSIVE DeletedAll(_, _, _)
DeletedAll(ms, gone, r) ==
    IF r = 0 THEN ms
    ELSE DeletedAll(IF r \in gone THEN MarkDeleted(ms, r) ELSE ms, gone, r - 1)

\* the first n documents uploaded, then the resources in gone deleted
Corpus(n, gone) ==
    [n |-> n, gone |-> gone, index |-> Ingested(n).index,
     metadata_store |-> DeletedAll(Ingested(n).metadata_store, gone, n)]

Corpora ==
    { Corpus(0, {}), Corpus(2, {}), Corpus(2, {1}), Corpus(2, {1, 2}),
      Corpus(3, {}), Corpus(3, {2}) }

\* the filters of a request
FilterSets ==
    { {},
      {<<"type", <<"p", "d", "f">>>>},
      {<<"type", <<"P", "D", "F">>>>},
      {<<"type", <<"d", "o", "c", "x">>>>},
      {<<"file_name", <<"A", ".">>>>},
      {<<"type", <<"p", "d", "f">>>>, <<"file_name", <<"b">>>>},
      {<<"language", <<"e", "n">>>>} }

Offsets == {0, 1, 4, 45}
Limits == {1, 2, 50}

\* what a collaborator of SearchService.search does when it is called: the
\* embedder or the reranker raises, or neither does
SearchFaults == {"none", "embed", "rerank"}

\* top_k of SearchRequest: 1 to 50, 10 when the request names none
DefaultTopK == 10
TopKs == {1, DefaultTopK, 50}

\* a running process holding one of the corpora, both files saved, and a
\* search request about to be handled; the embedder or the reranker may raise
InitSearchAll ==
    \E corpus \in Corpora :
        LET files == save(AbsentFile, AbsentFile, corpus.index, corpus.metadata_store,
                          IF corpus.n = 0 THEN "none" ELSE "done")
        IN
        /\ status = "up"
        /\ index = corpus.index
        /\ metadata_store = corpus.metadata_store
        /\ disk_index = files.disk_index
        /\ disk_meta = files.disk_meta
        /\ upload_files = {<<r, Suffix(SearchDocs[r].file_name)>> :
                              r \in {x \in 1..corpus.n :
                                  x \notin corpus.gone
                                  \/ Suffix(SearchDocs[x].file_name) \notin {PdfExt, DocxExt}}}
        /\ inflight = {}
        /\ next_rid = corpus.n + 1
        /\ clock = corpus.n + 1
        /\ faults = 0
        /\ deleted_ok = {[resource_id |-> r,
                           chunk_ids |-> MarkedChunkIds(Ingested(corpus.n).metadata_store, r)] :
                              r \in corpus.gone}
        /\ \E scorer \in Scorers, query \in Queries, filters \in FilterSets,
              offset \in Offsets, limit \in Limits, fault \in SearchFaults,
              top_k \in TopKs :
                resp = [op |-> "search_call", scorer |-> scorer, query |-> query,
                        filters |-> filters, top_k |-> top_k, offset |-> offset,
                        limit |-> limit, fault |-> fault]

\* the same, the request naming no top_k
InitSearchFaults == InitSearchAll /\ resp.top_k = DefaultTopK

\* the same with any top_k, every collaborator working
InitTopK == InitSearchAll /\ resp.fault = "none"

\* the same, every collaborator working
InitSearch == InitSearchFaults /\ resp.fault = "none"

\* a handler that answers a failed search with what the pipeline had computed
search_failure_degraded(out, fault) ==
    [code |-> 200, response |-> out.response, calls |-> out.calls,
     documents |-> out.documents]

\* search_documents when SearchService.search raised: the handler answers 500
\* "Search failed" and hands out nothing of what the pipeline had computed.
\* The calls made: a failing embedder ends them at embed_query; a failing
\* reranker fails in or after model.predict, the first thing rerank does with
\* documents, so every call of the pipeline was made
search_failure(out, fault) ==
    [code |-> 500, detail |-> "Search failed",
     calls |-> IF fault = "embed" THEN <<Call("embed_query", 1, 0)>> ELSE out.calls,
     documents |-> <<>>]

\* SearchService.search raises: the embedder raises when fault is "embed", the
\* reranker raises when it is called and fault is "rerank"
search_raises(out, fault) ==
    fault = "embed" \/ (fault = "rerank" /\ out.documents # <<>>)

\* the answer of the handler of POST /search to what SearchService.search did
search_outcome(out, fault) ==
    IF search_raises(out, fault)
    THEN search_failure(out, fault)
    ELSE [code |-> 200, response |-> out.response, calls |-> out.calls,
          documents |-> out.documents]

\* the handler of POST /search
search_documents(idx, ms, scorer, query, filters, top_k, offset, limit, fault) ==
    search_outcome(SearchService_search_with_top_k(idx, ms, scorer, query, filters,
                                                   top_k, offset, limit),
                   fault)

\* the metadata after a search: the reranker writes rerank_score into the
\* dicts SearchService.search built for it, not into the entries of the store
metadata_after_search_aliased(ms, documents) ==
    [i \in 1..Len(ms) |->
        IF \E j \in 1..Len(documents) : documents[j].metadata.chunk_id = ms[i].chunk_id
        THEN ("rerank_score" :> 0) @@ ms[i]
        ELSE ms[i]]

metadata_after_search(ms, documents) == ms

\* the request and what the handler answered to it
search_record(req, out) ==
    IF out.code = 200
    THEN [op |-> "search_response", scorer |-> req.scorer,
          query |-> req.query, filters |-> req.filters, top_k |-> req.top_k,
          offset |-> req.offset, limit |-> req.limit,
          response |-> out.response, calls |-> out.calls,
          documents |-> out.documents]
    ELSE [op |-> "search_error", scorer |-> req.scorer,
          query |-> req.query, filters |-> req.filters, top_k |-> req.top_k,
          offset |-> req.offset, limit |-> req.limit,
          fault |-> req.fault, code |-> out.code, detail |-> out.detail,
          calls |-> out.calls]

\* the handler of POST /search on the request
SearchRequest ==
    /\ status = "up"
    /\ resp.op = "search_call"
    /\ resp' = search_record(resp,
                    search_documents(index, metadata_store, resp.scorer, resp.query,
                                     resp.filters, resp.top_k, resp.offset, resp.limit,
                                     resp.fault))
    /\ metadata_store' = metadata_after_search(metadata_store,
                            IF resp'.op = "search_response" THEN resp'.documents
                            ELSE <<>>)
    /\ UNCHANGED <<status, index, disk_index, disk_meta, upload_files,
                   inflight, next_rid, clock, faults, deleted_ok>>

NextSearch == SearchRequest

SpecSearch == InitSearch /\ [][NextSearch]_vars

SpecSearchFaults == InitSearchFaults /\ [][NextSearch]_vars

SpecTopK == InitTopK /\ [][NextSearch]_vars

-----------------------------------------------------------------------------
(* The read handlers, one after the other, on the corpora *)

NextReadHandlers ==
    \/ SearchRequest
    \/ \E offset \in 0..1, limit \in 1..2 : ListResources(offset, limit)
    \/ \E rid \in ResourceIds : GetChunks(rid)

SpecReadHandlers == InitSearchFaults /\ [][NextReadHandlers]_vars

-----------------------------------------------------------------------------
(* The resource handlers on the stores the model draws from *)

\* the stores after the first n documents were uploaded and any of them deleted
ResourceCorpora ==
    UNION { {Corpus(n, gone) : gone \in SUBSET (1..n)} : n \in 0..Len(SearchDocs) }

\* the resource ids asked for: the ones uploaded and one that never was
AskedIds == 1..(Len(SearchDocs) + 1)

ListOffsets == 0..(Len(SearchDocs) + 1)
ListLimits == 1..(Len(SearchDocs) + 1)

\* a running process holding one of the stores, both files saved
InitResources ==
    \E corpus \in ResourceCorpora :
        LET files == save(AbsentFile, AbsentFile, corpus.index, corpus.metadata_store,
                          IF corpus.n = 0 THEN "none" ELSE "done")
        IN
        /\ status = "up"
        /\ index = corpus.index
        /\ metadata_store = corpus.metadata_store
        /\ disk_index = files.disk_index
        /\ disk_meta = files.disk_meta
        /\ upload_files = {<<r, Suffix(SearchDocs[r].file_name)>> :
                              r \in {x \in 1..corpus.n :
                                  x \notin corpus.gone
                                  \/ Suffix(SearchDocs[x].file_name) \notin {PdfExt, DocxExt}}}
        /\ inflight = {}
        /\ next_rid = corpus.n + 1
        /\ clock = corpus.n + 1
        /\ faults = 0
        /\ deleted_ok = {[resource_id |-> r,
                           chunk_ids |-> MarkedChunkIds(Ingested(corpus.n).metadata_store, r)] :
                              r \in corpus.gone}
        /\ resp = [op |-> "start", result |-> IF corpus.n = 0 THEN "not_found" ELSE "ok",
                   after |-> "none"]

NextResources ==
    \/ \E offset \in ListOffsets, limit \in ListLimits : ListResources(offset, limit)
    \/ \E rid \in AskedIds : GetChunks(rid)

SpecResources == InitResources /\ [][NextResources]_vars

-----------------------------------------------------------------------------
(* ChatService.chat_stream: the generator of the event stream *)

MaxChatTopK == 2
MaxLlmChunks == 2

\* the settings the chat service reads. config.py declares none of them:
\* OLLAMA (OLLAMA_BASE_URL and OLLAMA_MODEL) is read by ChatService.__init__,
\* CHAT_TOP_K (`defined`) by chat_stream; reading a field the Settings class
\* lacks raises AttributeError
ChatSettings ==
    {[OLLAMA |-> FALSE, defined |-> FALSE, CHAT_TOP_K |-> 0],
     [OLLAMA |-> TRUE, defined |-> FALSE, CHAT_TOP_K |-> 0]}
    \cup {[OLLAMA |-> TRUE, defined |-> TRUE, CHAT_TOP_K |-> k] : k \in 1..MaxChatTopK}

\* app.state.chat_service as the route finds it: main.py sets none, and a
\* start-up that constructs ChatService(search_service) gets one only when
\* __init__ finds the OLLAMA settings
chat_service(settings, constructs) ==
    IF constructs /\ settings.OLLAMA THEN "constructed" ELSE "unset"

\* the routers an application includes: main.py includes upload, resources
\* and search; an application that serves the chat includes routes/chat.py too
Routers(includes_chat) ==
    {"upload", "resources", "search"} \cup (IF includes_chat THEN {"chat"} ELSE {})

\* whitespace characters, each a piece of a text of its own
Whitespace == {" ", "\n"}

\* the texts the model answers with in rewrite_query, as their pieces (a word
\* or one whitespace character): a query, a query within blanks, a query and
\* a line end, and blanks only
LlmContents ==
    {<<q>> : q \in Queries}
    \cup {<<" ", "gamma", " ">>, <<"gamma", "\n">>, <<" ", " ">>}

\* what llm.ainvoke gives in rewrite_query: it raises, or answers with a text
LlmAnswers ==
    {[ok |-> FALSE, content |-> <<>>]} \cup {[ok |-> TRUE, content |-> c] : c \in LlmContents}

RECURSIVE lstrip(_)
lstrip(pieces) ==
    IF pieces # <<>> /\ pieces[1] \in Whitespace THEN lstrip(Tail(pieces)) ELSE pieces

Reversed(pieces) == [i \in 1..Len(pieces) |-> pieces[Len(pieces) + 1 - i]]

\* str.strip: the text without its leading and trailing whitespace
strip(pieces) == Reversed(lstrip(Reversed(lstrip(pieces))))

\* the string of a text of at most one piece
Text(pieces) == IF pieces = <<>> THEN "" ELSE pieces[1]

\* what streaming_llm.astream gives next: a chunk with text, a chunk without
\* content, the end of the stream, or an exception
LlmItems == {"text", "empty", "end", "raise"}

\* a rewrite_query that hands back the content it has when the model raises
rewrite_query_empty_on_failure(query, answer) == Text(strip(answer.content))

\* rewrite_query: the stripped answer of the model, the original query when
\* the model raises
rewrite_query(query, answer) ==
    IF answer.ok THEN Text(strip(answer.content)) ELSE query

Event(kind, data) == [event |-> kind, data |-> data]

\* the sources of a search response
chat_sources(response) ==
    [i \in 1..Len(response.results) |->
        [file_name |-> response.results[i].metadata.file_name,
         page_number |-> response.results[i].metadata.page_number,
         text |-> response.results[i].text,
         score |-> response.results[i].rerank_score]]

\* the except block of chat_stream: one error event
on_exception_silent(events) == events

on_exception(events) == Append(events, Event("error", <<>>))

ChatCorpora == { Corpus(0, {}), Corpus(2, {}), Corpus(2, {1}), Corpus(2, {1, 2}) }

\* a running process holding one of the corpora, and a POST /chat/stream
\* request sent to its application
InitChat ==
    \E corpus \in ChatCorpora :
        LET files == save(AbsentFile, AbsentFile, corpus.index, corpus.metadata_store,
                          IF corpus.n = 0 THEN "none" ELSE "done")
        IN
        /\ status = "up"
        /\ index = corpus.index
        /\ metadata_store = corpus.metadata_store
        /\ disk_index = files.disk_index
        /\ disk_meta = files.disk_meta
        /\ upload_files = {<<r, Suffix(SearchDocs[r].file_name)>> :
                              r \in {x \in 1..corpus.n :
                                  x \notin corpus.gone
                                  \/ Suffix(SearchDocs[x].file_name) \notin {PdfExt, DocxExt}}}
        /\ inflight = {}
        /\ next_rid = corpus.n + 1
        /\ clock = corpus.n + 1
        /\ faults = 0
        /\ deleted_ok = {[resource_id |-> r,
                           chunk_ids |-> MarkedChunkIds(Ingested(corpus.n).metadata_store, r)] :
                              r \in corpus.gone}
        /\ \E scorer \in Scorers, query \in Queries, settings \in ChatSettings,
              constructs \in BOOLEAN, includes_chat \in BOOLEAN :
                resp = [op |-> "chat", pc |-> "route", code |-> 0, scorer |-> scorer,
                        routers |-> Routers(includes_chat),
                        chat_service |-> chat_service(settings, constructs),
                        settings |-> settings, query |-> query,
                        rewritten_query |-> "", rewrite_failed |-> FALSE,
                        searched |-> <<>>, failed |-> "none",
                        sources |-> <<>>, streamed |-> 0, events |-> <<>>]

ChatUnchanged ==
    UNCHANGED <<status, index, metadata_store, disk_index, disk_meta, upload_files,
                inflight, next_rid, clock, faults, deleted_ok>>

\* POST /chat/stream: an application without the chat router answers 404;
\* in the route, without app.state.chat_service the AttributeError is answered
\* 500; with it the streaming response starts and its consumer runs the
\* generator
ChatRoute ==
    /\ resp.op = "chat" /\ resp.pc = "route"
    /\ resp' = IF "chat" \notin resp.routers
               THEN [resp EXCEPT !.pc = "end", !.code = 404]
               ELSE IF resp.chat_service = "unset"
               THEN [resp EXCEPT !.pc = "end", !.code = 500]
               ELSE [resp EXCEPT !.pc = "rewrite", !.code = 200]
    /\ ChatUnchanged

\* Step 1: await rewrite_query
ChatRewrite(answer) ==
    /\ resp.op = "chat" /\ resp.pc = "rewrite"
    /\ resp' = [resp EXCEPT !.pc = "search",
                            !.rewrite_failed = ~answer.ok,
                            !.rewritten_query = rewrite_query(resp.query, answer)]
    /\ ChatUnchanged

\* Steps 2 and 3: search with the rewritten query, no filters, offset 0 and
\* limit CHAT_TOP_K, and the sources of the results; any exception goes to the
\* except block
ChatSearch(fault) ==
    LET out == SearchService_search(index, metadata_store, resp.scorer,
                                    resp.rewritten_query, {}, 0,
                                    resp.settings.CHAT_TOP_K)
    IN
    /\ resp.op = "chat" /\ resp.pc = "search"
    /\ resp' = IF ~resp.settings.defined
               THEN [resp EXCEPT !.pc = "except", !.failed = "retrieval"]
               ELSE IF search_raises(out, fault)
               THEN [resp EXCEPT !.pc = "except", !.failed = "retrieval",
                                 !.searched = <<resp.rewritten_query>>]
               ELSE [resp EXCEPT !.pc = "yield_sources",
                                 !.searched = <<resp.rewritten_query>>,
                                 !.sources = chat_sources(out.response)]
    /\ ChatUnchanged

\* yield the sources event
ChatYieldSources ==
    /\ resp.op = "chat" /\ resp.pc = "yield_sources"
    /\ resp' = [resp EXCEPT !.pc = "yield_query",
                            !.events = Append(@, Event("sources", resp.sources))]
    /\ ChatUnchanged

\* yield the query event; without context the fixed answer comes next, with
\* context the stream of the model
ChatYieldQuery ==
    /\ resp.op = "chat" /\ resp.pc = "yield_query"
    /\ resp' = [resp EXCEPT !.pc = IF resp.sources = <<>> THEN "no_context"
                                   ELSE "stream",
                            !.events = Append(@, Event("query", resp.rewritten_query))]
    /\ ChatUnchanged

\* no context found: the fixed chunk
ChatYieldNoContext ==
    /\ resp.op = "chat" /\ resp.pc = "no_context"
    /\ resp' = [resp EXCEPT !.pc = "yield_done",
                            !.events = Append(@, Event("chunk", "not found"))]
    /\ ChatUnchanged

\* async for chunk in streaming_llm.astream(messages): a chunk with content is
\* yielded, one without is skipped, the end leads to done, an exception to
\* the except block
ChatStream(item) ==
    /\ resp.op = "chat" /\ resp.pc = "stream"
    /\ item \in {"text", "empty"} => resp.streamed < MaxLlmChunks
    /\ resp' = CASE item = "text" ->
                       [resp EXCEPT !.streamed = @ + 1,
                                    !.events = Append(@, Event("chunk", "text"))]
                 [] item = "empty" -> [resp EXCEPT !.streamed = @ + 1]
                 [] item = "end" -> [resp EXCEPT !.pc = "yield_done"]
                 [] OTHER -> [resp EXCEPT !.pc = "except", !.failed = "generation"]
    /\ ChatUnchanged

\* yield the done event; the generator returns
ChatYieldDone ==
    /\ resp.op = "chat" /\ resp.pc = "yield_done"
    /\ resp' = [resp EXCEPT !.pc = "end",
                            !.events = Append(@, Event("done", <<>>))]
    /\ ChatUnchanged

\* except Exception: yield the error event; the generator returns
ChatYieldError ==
    /\ resp.op = "chat" /\ resp.pc = "except"
    /\ resp' = [resp EXCEPT !.pc = "end", !.events = on_exception(@)]
    /\ ChatUnchanged

NextChat ==
    \/ ChatRoute
    \/ \E answer \in LlmAnswers : ChatRewrite(answer)
    \/ \E fault \in SearchFaults : ChatSearch(fault)
    \/ ChatYieldSources
    \/ ChatYieldQuery
    \/ ChatYieldNoContext
    \/ \E item \in LlmItems : ChatStream(item)
    \/ ChatYieldDone
    \/ ChatYieldError

SpecChat == InitChat /\ [][NextChat]_vars

-----------------------------------------------------------------------------
(* Paging through the results of one search, request after request *)

MaxPages == 3

\* a PDF with one chunk more than the candidate floor, every chunk with the
\* text "alpha", and after it a PDF with the one chunk "gamma"
PagingDocs ==
    << Doc(<<"p", ".", "p", "d", "f">>, 3,
           [j \in 1..(CandidateFloor + 1) |-> Chunk(j, "alpha")]),
       Doc(<<"q", ".", "p", "d", "f">>, 1, <<Chunk(1, "gamma")>>) >>

\* the store after the documents of PagingDocs were uploaded
PagingCorpus ==
    LET first  == add_documents(<<>>, <<>>, embed_texts(ChunkTexts(PagingDocs[1])),
                                PrepareMetadata(1, PagingDocs[1], 1))
        second == add_documents(first.index, first.metadata_store,
                                embed_texts(ChunkTexts(PagingDocs[2])),
                                PrepareMetadata(2, PagingDocs[2], 2))
    IN [n |-> 2, gone |-> {}, index |-> second.index,
        metadata_store |-> second.metadata_store]

PagingCorpora == { Corpus(2, {}), Corpus(3, {}), Corpus(3, {2}), PagingCorpus }

PageSizes == {1, 2, CandidateFloor \div 2}

PagingFilters == { {}, {<<"type", <<"p", "d", "f">>>>} }

\* the files _save_file staged for the resources of a store and no delete
\* removed: a delete looks for <id>.pdf and <id>.docx only
StagedFiles(ms, gone) ==
    {<<ms[i].resource_id, Suffix(ms[i].file_name)>> :
        i \in {j \in 1..Len(ms) :
                  \/ ms[j].resource_id \notin gone
                  \/ Suffix(ms[j].file_name) \notin {PdfExt, DocxExt}}}

\* a running process holding one of the stores, and a client about to page
\* through the results of one query, page_size results at a time
InitPaging ==
    \E corpus \in PagingCorpora :
        LET files == save(AbsentFile, AbsentFile, corpus.index, corpus.metadata_store,
                          "done")
        IN
        /\ status = "up"
        /\ index = corpus.index
        /\ metadata_store = corpus.metadata_store
        /\ disk_index = files.disk_index
        /\ disk_meta = files.disk_meta
        /\ upload_files = StagedFiles(corpus.metadata_store, corpus.gone)
        /\ inflight = {}
        /\ next_rid = corpus.n + 1
        /\ clock = corpus.n + 1
        /\ faults = 0
        /\ deleted_ok = {[resource_id |-> r,
                           chunk_ids |-> MarkedChunkIds(Ingested(corpus.n).metadata_store, r)] :
                              r \in corpus.gone}
        /\ \E scorer \in Scorers, query \in Queries, filters \in PagingFilters,
              page_size \in PageSizes :
                resp = [op |-> "paging", scorer |-> scorer, query |-> query,
                        filters |-> filters, limit |-> page_size, pages |-> <<>>]

\* the handler of POST /search on the request for the next page: the offset is
\* the number of pages fetched times the page size
NextPage ==
    LET offset == Len(resp.pages) * resp.limit
        out == SearchService_search(index, metadata_store, resp.scorer, resp.query,
                                    resp.filters, offset, resp.limit)
    IN
    /\ status = "up"
    /\ resp.op = "paging"
    /\ Len(resp.pages) < MaxPages
    /\ resp.pages # <<>> => resp.pages[Len(resp.pages)].has_more
    /\ resp' = [resp EXCEPT !.pages = Append(@, out.response)]
    /\ UNCHANGED <<status, index, metadata_store, disk_index, disk_meta, upload_files,
                   inflight, next_rid, clock, faults, deleted_ok>>

NextPaging == NextPage

SpecPaging == InitPaging /\ [][NextPaging]_vars

-----------------------------------------------------------------------------
(* Properties *)

\* the vector the embedder and add_documents store for a chunk text
VectorOf(text) == normalize_L2(embed_texts(<<text>>)[1])

\* positional alignment: as many vectors as metadata entries, and the vector at
\* position i is the vector of the chunk that metadata entry i describes
Aligned(idx, ms) ==
    /\ Len(idx) = Len(ms)
    /\ \A i \in 1..Len(ms) : idx[i] = VectorOf(ms[i].text)

LivePos(ms) == {i \in 1..Len(ms) : ~ms[i].deleted}
DeletedPos(ms) == {i \in 1..Len(ms) : ms[i].deleted}

\* a step of the delete handler for resource r (UploadStage leaves resp alone,
\* but issues a resource id)
DeleteStep(r) ==
    /\ status = "up"
    /\ next_rid' = next_rid
    /\ resp'.op = "delete"
    /\ resp'.resource_id = r

\* C1: in every state of a constructed VectorStore the index holds as many
\* vectors as metadata_store holds entries, and entry i describes vector i.
C1_AlignedInEveryState ==
    status = "up" => Aligned(index, metadata_store)

\* C2: a load() at the start that follows a crash inside save() either fails or
\* yields an aligned index.
C2_LoadAfterCrashInSaveAligned ==
    (resp.op = "start" /\ resp.after = "save" /\ resp.result = "ok")
        => (Len(index) = Len(metadata_store) /\ Aligned(index, metadata_store))

\* C3: a writer's mutation and its save are one step with respect to all other
\* handlers (a step that changes the store in a running process is the step of
\* one upload or delete handler, save included), and no reader observes a
\* state whose vector count and metadata count differ.
C3_WritersAtomicReadersConsistent ==
    /\ [](resp.op \in {"search", "list", "chunks"}
            => Len(index) = Len(metadata_store))
    /\ [][(status = "up" /\ status' = "up"
            /\ <<index, metadata_store>>' # <<index, metadata_store>>)
            => (resp'.op \in {"upload", "delete"}
                /\ (resp'.code = 200 =>
                       /\ disk_index' = OkFile(write_index(index', EMBEDDING_DIMENSION))
                       /\ disk_meta' = OkFile(pickle_dump(metadata_store'))))]_vars

\* C4: for every query vector and every k, VectorStore.search returns no entry
\* whose metadata is marked deleted.
C4_SearchNeverReturnsDeleted ==
    (status = "up" /\ DeletedPos(metadata_store) # {}) =>
        \A q \in QueryVecs, k \in 1..MaxK :
            LET res == VS_search(index, metadata_store, q, k)
            IN \A i \in 1..Len(res) :
                  /\ ~res[i].metadata.deleted
                  /\ \A j \in DeletedPos(metadata_store) :
                        metadata_store[j].chunk_id # res[i].metadata.chunk_id

C4_Witness ==
    /\ status = "up"
    /\ \E q \in QueryVecs, k \in 1..MaxK :
          LET hits == faiss_search(index, normalize_L2(q), Min(k, Len(index)))
          IN /\ VS_search(index, metadata_store, q, k) # <<>>
             /\ \E h \in 1..Len(hits) :
                   /\ hits[h].pos <= Len(metadata_store)
                   /\ metadata_store[hits[h].pos].deleted

\* no two stored vectors have the same inner product with q
NoTies(idx, q) ==
    \A i, j \in 1..Len(idx) : i # j => Dot(idx[i], q) # Dot(idx[j], q)

\* C5: VectorStore.search(q, k) returns exactly min(k, L) results, L the number
\* of live entries: the highest-scoring live entries, in descending order of
\* score. (Stated for an aligned index on which no two scores are equal, where
\* "the highest-scoring" leaves no choice.)
C5_SearchReturnsTopLive ==
    (/\ resp.op = "search"
     /\ Aligned(index, metadata_store)
     /\ NoTies(index, normalize_L2(resp.query))) =>
        LET res     == resp.results
            q       == normalize_L2(resp.query)
            live    == LivePos(metadata_store)
            got     == {i \in live :
                          \E j \in 1..Len(res) :
                              res[j].metadata.chunk_id = metadata_store[i].chunk_id}
        IN /\ Len(res) = Min(resp.k, Cardinality(live))
           /\ \A i, j \in 1..Len(res) : i < j => res[i].score >= res[j].score
           /\ Cardinality(got) = Len(res)
           /\ \A i \in got, j \in live \ got : Dot(index[i], q) >= Dot(index[j], q)

\* C6: delete_resource(r) marks exactly the live entries of r and returns how
\* many it marked; called again right after a delete_resource(r) that
\* returned, it returns 0 and changes nothing.
C6_DeleteCountsAndIsIdempotent ==
    [][\A r \in ResourceIds :
        (DeleteStep(r) /\ resp'.returned) =>
            /\ Len(metadata_store') = Len(metadata_store)
            /\ \A i \in 1..Len(metadata_store) :
                  metadata_store'[i].deleted =
                      (metadata_store[i].deleted \/ metadata_store[i].resource_id = r)
            /\ resp'.count =
                  Cardinality({i \in 1..Len(metadata_store) :
                      ~metadata_store[i].deleted /\ metadata_store'[i].deleted})
            /\ (resp.op = "delete" /\ resp.resource_id = r /\ resp.returned) =>
                  /\ resp'.count = 0
                  /\ UNCHANGED <<index, metadata_store, disk_index, disk_meta>>]_vars

C6_Witness ==
    /\ resp.op = "delete"
    /\ resp.returned
    /\ resp.count = 0
    /\ \E d \in deleted_ok : d.resource_id = resp.resource_id /\ d.chunk_ids # {}

\* C7: for every index state, save() followed by load() into a fresh
\* VectorStore on the same path gives back the same vectors and the same
\* metadata entries, deleted flags included, in the same order.
C7_SaveLoadRoundTrip ==
    status = "up" =>
        LET files == save(AbsentFile, AbsentFile, index, metadata_store, "done")
        IN load(files.disk_index, files.disk_meta, <<>>, <<>>) =
              [result |-> "ok", index |-> index, metadata_store |-> metadata_store]

C7_Witness ==
    /\ status = "up"
    /\ resp.op = "start"
    /\ resp.result = "ok"
    /\ Len(index) > 3
    /\ DeletedPos(metadata_store) # {}
    /\ LivePos(metadata_store) # {}

\* the response of an upload that succeeded or of a delete that marked an
\* entry and returned
MutationDone(r) ==
    \/ r.op = "upload" /\ r.code = 200
    \/ r.op = "delete" /\ r.returned /\ r.count > 0

\* C8: when an upload or a delete that marked an entry has completed, the two
\* artifacts load to exactly the in-memory store, so a restart there restores
\* it; and a delete that marks nothing leaves both files alone.
C8_PersistedAfterEveryMutation ==
    /\ []((status = "up" /\ MutationDone(resp)) =>
            load(disk_index, disk_meta, <<>>, <<>>) =
                [result |-> "ok", index |-> index, metadata_store |-> metadata_store])
    /\ [][\A r \in ResourceIds :
            (DeleteStep(r) /\ resp'.returned /\ resp'.count = 0)
                => UNCHANGED <<disk_index, disk_meta>>]_vars

C8_Witness ==
    /\ status = "up"
    /\ MutationDone(resp)
    /\ resp.op = "delete"
    /\ Len(index) > 3
    /\ LivePos(metadata_store) # {}

\* C9: once delete_resource(r) has returned a positive count, in every later
\* state of a running process (after restarts too) no search returns a chunk of
\* r, get_all_resources does not list r, get_chunks_by_resource(r) is empty,
\* and the entries it marked are still stored, with deleted = true.
C9_DeletedStaysInvisibleButStored ==
    []((status = "up" /\ deleted_ok # {}) =>
        LET gone == {d.resource_id : d \in deleted_ok}
        IN /\ \A q \in QueryVecs, k \in 1..MaxK :
                  LET res == VS_search(index, metadata_store, q, k)
                  IN \A i \in 1..Len(res) : res[i].metadata.resource_id \notin gone
           /\ LET all == get_all_resources(metadata_store)
              IN \A i \in 1..Len(all) : all[i].resource_id \notin gone
           /\ \A d \in deleted_ok :
                  /\ get_chunks_by_resource(metadata_store, d.resource_id) = <<>>
                  /\ \A c \in d.chunk_ids :
                        \E n \in 1..Len(metadata_store) :
                            /\ metadata_store[n].chunk_id = c
                            /\ metadata_store[n].resource_id = d.resource_id
                            /\ metadata_store[n].deleted)

C9_Witness ==
    /\ status = "up"
    /\ resp.op = "start"
    /\ resp.result = "ok"
    /\ \E d \in deleted_ok : d.chunk_ids # {}
    /\ LivePos(metadata_store) # {}

\* C10: while the process runs, no step reorders or removes a stored entry:
\* every vector and every metadata entry keeps its position and all fields but
\* deleted; entries are only appended, and only by an upload, which changes no
\* flag; a flag changes only from false to true, only in a delete, and only on
\* entries of the resource named.
C10_AppendOnlyExceptDeletedFlag ==
    [][(status = "up" /\ status' = "up") =>
        /\ Len(index') >= Len(index)
        /\ Len(metadata_store') >= Len(metadata_store)
        /\ \A i \in 1..Len(index) : index'[i] = index[i]
        /\ \A i \in 1..Len(metadata_store) :
              /\ metadata_store'[i] =
                    [metadata_store[i] EXCEPT !.deleted = metadata_store'[i].deleted]
              /\ metadata_store[i].deleted => metadata_store'[i].deleted
              /\ metadata_store'[i].deleted # metadata_store[i].deleted =>
                    /\ resp'.op = "delete"
                    /\ metadata_store[i].resource_id = resp'.resource_id
        /\ Len(metadata_store') > Len(metadata_store) =>
              /\ resp'.op = "upload"
              /\ \A i \in 1..Len(metadata_store) :
                    metadata_store'[i] = metadata_store[i]]_vars

C10_Witness ==
    /\ status = "up"
    /\ resp.op = "upload"
    /\ resp.code = 200
    /\ Len(metadata_store) > resp.num_chunks
    /\ DeletedPos(metadata_store) # {}

\* C11: a process_upload that fails after the file was staged leaves the
\* in-memory index and metadata as they were before the call and removes the
\* staged file.
C11_FailedUploadLeavesNoTrace ==
    [][(/\ status = "up"
        /\ resp' # resp
        /\ resp'.op = "upload"
        /\ resp'.code # 200
        /\ resp'.resource_id # 0) =>
            /\ index' = index
            /\ metadata_store' = metadata_store
            /\ \A f \in upload_files' : f[1] # resp'.resource_id]_vars

\* the arguments of an add_documents call disagree: another number of rows
\* than of metadata entries, or a row of another dimension than the index's
Mismatch(embeddings, metadatas) ==
    \/ Len(embeddings) # Len(metadatas)
    \/ \E i \in 1..Len(embeddings) : Len(embeddings[i]) # EMBEDDING_DIMENSION

\* C12: add_documents with as many rows as metadata entries disagreeing, or
\* with a row of another dimension, fails and leaves index and metadata_store
\* as they were.
C12_MismatchedAddChangesNothing ==
    [][(resp'.op = "add_documents"
        /\ Mismatch(resp'.embeddings, resp'.metadatas)) =>
            /\ ~resp'.ok
            /\ index' = index
            /\ metadata_store' = metadata_store]_vars

C12_Witness ==
    /\ resp.op = "add_documents"
    /\ ~resp.ok
    /\ Len(resp.embeddings) = Len(resp.metadatas)
    /\ Len(resp.embeddings) = 2
    /\ Len(index) > 0
    /\ Len(index) = Len(metadata_store)

\* C13: load() with either file absent fails as not found and leaves the
\* in-memory index and metadata alone; a start of the process in that
\* situation succeeds with an empty index and no metadata.
C13_LoadNotFoundToleratedAtStart ==
    /\ [](status = "up" =>
            \A di \in {AbsentFile, disk_index}, dm \in {AbsentFile, disk_meta} :
                (di.state = "absent" \/ dm.state = "absent") =>
                    load(di, dm, index, metadata_store) =
                        [result |-> "not_found", index |-> index,
                         metadata_store |-> metadata_store])
    /\ [][(/\ status = "down"
            /\ status' # "down"
            /\ (disk_index.state = "absent" \/ disk_meta.state = "absent")) =>
                /\ status' = "up"
                /\ resp'.result = "not_found"
                /\ index' = <<>>
                /\ metadata_store' = <<>>]_vars

C13_Witness ==
    /\ status = "up"
    /\ resp.op = "start"
    /\ resp.result = "not_found"
    /\ resp.after = "save"
    /\ disk_index.state # "absent"
    /\ disk_meta.state = "absent"
    /\ index = <<>>

\* the logit the cross-encoder gave a document of a rerank call
LogitOf(r, doc) == cross_encoder(r.scorer, r.query, doc.text)

\* the logits of the whole batch of a rerank call
Logits(r) == [i \in 1..Len(r.documents) |-> LogitOf(r, r.documents[i])]

\* C16: every rerank_score lies in [0, 1] and is (score - min) / (max - min)
\* over the batch when max > min; a batch of one document scores exactly 1,
\* a larger batch of equal raw scores scores exactly 1/2 throughout.
C16_RerankScoreMinMax ==
    (resp.op = "rerank" /\ resp.documents # <<>>) =>
        LET lo == SeqMin(Logits(resp))
            hi == SeqMax(Logits(resp))
        IN \A i \in 1..Len(resp.result) :
              LET sc == resp.result[i].rerank_score
              IN /\ sc.den > 0
                 /\ 0 <= sc.num
                 /\ sc.num <= sc.den
                 /\ hi > lo =>
                       sc.num * (hi - lo) = (LogitOf(resp, resp.result[i]) - lo) * sc.den
                 /\ Len(resp.documents) = 1 => sc.num = sc.den
                 /\ (hi = lo /\ Len(resp.documents) > 1) => 2 * sc.num = sc.den

C16_Witness ==
    /\ resp.op = "rerank"
    /\ Len(resp.result) = 3
    /\ resp.result[1].rerank_score = Frac(1, 1)
    /\ resp.result[3].rerank_score = Frac(0, 1)
    /\ resp.result[2].rerank_score \notin {Frac(0, 1), Frac(1, 2), Frac(1, 1)}

\* the position in the batch of the document a result came from
InputPos(r, doc) ==
    CHOOSE p \in 1..Len(r.documents) :
        r.documents[p].metadata.chunk_id = doc.metadata.chunk_id

\* C17: rerank returns the first top_k of the batch ordered by descending
\* score, documents of equal score in the order they had in the batch.
C17_RerankSortedStableTruncated ==
    (resp.op = "rerank") =>
        LET res == resp.result
            before(a, pa, b, pb) ==
                \/ FracLess(b, a)
                \/ (a = b /\ pa < pb)
            full == rerank(resp.scorer, resp.query, resp.documents, Len(resp.documents))
        IN /\ Len(res) = Min(resp.top_k, Len(resp.documents))
           /\ \A i \in 1..Len(res) :
                  \E p \in 1..Len(resp.documents) :
                      /\ resp.documents[p].metadata = res[i].metadata
                      /\ resp.documents[p].text = res[i].text
           /\ \A i, j \in 1..Len(res) : i < j =>
                  before(res[i].rerank_score, InputPos(resp, res[i]),
                         res[j].rerank_score, InputPos(resp, res[j]))
           /\ \A i \in 1..Len(res), d \in 1..Len(full) :
                  (\A j \in 1..Len(res) : res[j].metadata # full[d].metadata) =>
                      before(res[i].rerank_score, InputPos(resp, res[i]),
                             full[d].rerank_score, InputPos(resp, full[d]))

C17_Witness ==
    /\ resp.op = "rerank"
    /\ Len(resp.documents) = 3
    /\ Len(resp.result) = 2
    /\ LogitOf(resp, resp.documents[1]) = LogitOf(resp, resp.documents[2])
    /\ resp.result[1].metadata = resp.documents[3].metadata
    /\ resp.result[2].metadata = resp.documents[1].metadata

\* what VectorStore.search gives for the request r on the current store
Recalled(r) ==
    VS_search(index, metadata_store, embed_texts(<<r.query>>)[1],
              Max(CandidateFloor, r.offset + r.limit + RerankBuffer))

\* two strings are equal when case is ignored
SameIgnoringCase(a, b) ==
    Len(a) = Len(b) /\ \A i \in 1..Len(a) : LowerChar(a[i]) = LowerChar(b[i])

\* the file name satisfies every filter of the request that is a type or a
\* file_name filter
Satisfies(file_name, filters) ==
    /\ \A f \in filters : f[1] = "type" =>
          \E d \in 0..Len(file_name) :
              /\ d = 0 \/ file_name[d] = "."
              /\ \A i \in (d + 1)..Len(file_name) : file_name[i] # "."
              /\ (d = 0 => \A i \in 1..Len(file_name) : file_name[i] # ".")
              /\ SameIgnoringCase(SubSeq(file_name, d + 1, Len(file_name)), f[2])
    /\ \A f \in filters : f[1] = "file_name" =>
          \E i \in 1..(Len(file_name) + 1) :
              /\ i + Len(f[2]) - 1 <= Len(file_name)
              /\ SameIgnoringCase(SubSeq(file_name, i, i + Len(f[2]) - 1), f[2])

\* the recalled candidates that satisfy the filters of r, in recalled order
Candidates(r) ==
    SelectSeq(Recalled(r), LAMBDA c : Satisfies(c.metadata.file_name, r.filters))

\* the reranked sequence of the request r
Reranked(r) ==
    LET cands == Candidates(r)
        docs  == [i \in 1..Len(cands) |->
                     [text |-> cands[i].metadata.text, metadata |-> cands[i].metadata,
                      vector_score |-> cands[i].score]]
    IN rerank(r.scorer, r.query, docs,
              Min(Len(docs), r.offset + r.limit + RerankBuffer))

\* the calls of the log made to fn
CallsTo(calls, fn) == SelectSeq(calls, LAMBDA c : c.fn = fn)

\* C14: the results are the slice [offset, offset + limit) of the reranked
\* sequence, min(limit, max(0, len(reranked) - offset)) of them, and has_more
\* is true exactly when offset + limit < len(reranked).
C14_PaginationSlice ==
    (resp.op = "search_response") =>
        LET rr  == Reranked(resp)
            res == resp.response.results
        IN /\ Len(res) = Min(resp.limit, Max(0, Len(rr) - resp.offset))
           /\ \A i \in 1..Len(res) :
                  /\ res[i].metadata.chunk_id = rr[resp.offset + i].metadata.chunk_id
                  /\ res[i].text = rr[resp.offset + i].text
                  /\ res[i].rerank_score = rr[resp.offset + i].rerank_score
                  /\ res[i].vector_score = rr[resp.offset + i].vector_score
           /\ resp.response.has_more = (resp.offset + resp.limit < Len(rr))

C14_Witness ==
    /\ resp.op = "search_response"
    /\ resp.offset = 4
    /\ resp.limit = 2
    /\ Len(resp.response.results) = 2
    /\ resp.response.has_more
    /\ Len(Reranked(resp)) > 6

\* C15: the reranker scores all post-filter candidates in one batch, the
\* reranked sequence is cut to min(number of candidates, offset + limit + 10),
\* and total_found is the length of that sequence.
C15_RerankTopKAndTotalFound ==
    (resp.op = "search_response" /\ Candidates(resp) # <<>>) =>
        LET n   == Len(Candidates(resp))
            top == Min(n, resp.offset + resp.limit + RerankBuffer)
        IN /\ CallsTo(resp.calls, "predict") = <<Call("predict", n, 0)>>
           /\ CallsTo(resp.calls, "rerank") = <<Call("rerank", n, top)>>
           /\ resp.response.total_found = top
           /\ resp.response.total_found = Len(Reranked(resp))

C15_Witness ==
    /\ resp.op = "search_response"
    /\ resp.response.total_found = resp.offset + resp.limit + RerankBuffer
    /\ resp.response.total_found < Len(Candidates(resp))
    /\ Len(Candidates(resp)) < Len(Recalled(resp))

\* C18: with filters, the documents handed to the reranker are exactly the
\* recalled candidates whose file name has the type filter's value as its
\* extension and contains the file_name filter's value, case ignored, in
\* recalled order.
C18_FiltersSelectRecalled ==
    (resp.op = "search_response" /\ resp.filters # {}) =>
        LET cands == Candidates(resp)
        IN /\ Len(resp.documents) = Len(cands)
           /\ \A i \in 1..Len(cands) :
                  /\ resp.documents[i].metadata = cands[i].metadata
                  /\ resp.documents[i].vector_score = cands[i].score
                  /\ resp.documents[i].text = cands[i].metadata.text

C18_Witness ==
    /\ resp.op = "search_response"
    /\ resp.filters = {<<"type", <<"d", "o", "c", "x">>>>}
    /\ Len(resp.documents) = 1
    /\ resp.documents[1].metadata.file_name = <<"b", ".", "D", "O", "C", "X">>
    /\ Len(Recalled(resp)) > 1

\* C19: when no candidate is left after recall and filtering, the response
\* has no results, total_found 0, has_more false and the requested offset and
\* limit, and the reranker is not called.
C19_EmptyCandidatesEmptyResponse ==
    (resp.op = "search_response" /\ Candidates(resp) = <<>>) =>
        /\ resp.response = [query |-> resp.query, results |-> <<>>, total_found |-> 0,
                             has_more |-> FALSE, offset |-> resp.offset,
                             limit |-> resp.limit]
        /\ CallsTo(resp.calls, "rerank") = <<>>
        /\ CallsTo(resp.calls, "predict") = <<>>

C19_Witness ==
    /\ resp.op = "search_response"
    /\ resp.response.results = <<>>
    /\ resp.response.total_found = 0
    /\ resp.offset = 4
    /\ metadata_store # <<>>
    /\ LivePos(metadata_store) = {}

\* C20: a search embeds the query once, then calls VectorStore.search once
\* with k = max(50, offset + limit + 10), then filters the recalled set (when
\* there are filters), then calls the reranker at most once.
C20_PipelineOrder ==
    (resp.op = "search_response") =>
        LET calls == resp.calls
            k     == IF resp.offset + resp.limit + 10 > 50
                     THEN resp.offset + resp.limit + 10 ELSE 50
            rest  == SubSeq(calls, 3, Len(calls))
            recalled == Recalled(resp)
        IN /\ Len(calls) >= 2
           /\ calls[1] = Call("embed_query", 1, 0)
           /\ calls[2] = Call("vector_store.search", 1, k)
           /\ CallsTo(rest, "embed_query") = <<>>
           /\ CallsTo(rest, "vector_store.search") = <<>>
           /\ Len(CallsTo(calls, "rerank")) <= 1
           /\ Len(CallsTo(calls, "_apply_filters")) = (IF resp.filters = {} THEN 0 ELSE 1)
           /\ resp.filters # {} =>
                  /\ calls[3] = Call("_apply_filters", Len(recalled), 0)
                  /\ \A i \in 1..Len(resp.documents) :
                        \E j \in 1..Len(recalled) :
                            recalled[j].metadata = resp.documents[i].metadata
           /\ \A i \in 1..Len(calls) :
                  calls[i].fn \in {"rerank", "predict"} =>
                      i > (IF resp.filters = {} THEN 2 ELSE 3)

C20_Witness ==
    /\ resp.op = "search_response"
    /\ resp.filters # {}
    /\ Len(resp.calls) = 5
    /\ resp.calls[2].k > CandidateFloor
    /\ resp.calls[4].fn = "rerank"
    /\ resp.calls[3].n > resp.calls[4].n

\* C21: when the embedder raises, or the reranker raises on the candidates it
\* is handed, the search handler answers 500, hands out no result of the
\* pipeline, partial or reranked, and leaves the index, the metadata and both
\* files as they were
C21_SearchFailureIsServerError ==
    [][(resp.op = "search_call"
        /\ (resp.fault = "embed"
            \/ (resp.fault = "rerank" /\ Candidates(resp) # <<>>)))
       => /\ resp'.op = "search_error"
          /\ resp'.code = 500
          /\ "response" \notin DOMAIN resp'
          /\ "documents" \notin DOMAIN resp'
          /\ UNCHANGED <<index, metadata_store, disk_index, disk_meta>>]_vars

C21_Witness ==
    /\ resp.op = "search_error"
    /\ resp.fault = "rerank"
    /\ resp.code = 500
    /\ Len(resp.calls) >= 4
    /\ resp.calls[Len(resp.calls)] = Call("predict", Len(Candidates(resp)), 0)
    /\ LivePos(metadata_store) # {}

\* the live entries of resource r: the ones a delete of r newly marks
LiveOf(ms, r) == {i \in LivePos(ms) : ms[i].resource_id = r}

\* C22: a delete of r that meets no failure of save or unlink is answered 404
\* exactly when it newly marks no chunk (r was never uploaded, or was deleted
\* before); a delete answered 404 changes no entry, no vector, neither file of
\* the index and no uploaded file; a delete that newly marks chunks and meets no
\* failure answers 200 with the number it marked.
C22_DeleteNotFoundIffNothingMarked ==
    [][\A r \in ResourceIds :
        DeleteStep(r) =>
            LET newly == Cardinality(LiveOf(metadata_store, r))
            IN /\ (resp'.code = 404) = (newly = 0)
               /\ resp'.code = 404 =>
                     /\ resp'.count = 0
                     /\ UNCHANGED <<index, metadata_store, disk_index, disk_meta,
                                    upload_files>>
               /\ resp'.code = 200 => resp'.count = newly
               /\ (newly > 0 /\ faults' = faults) =>
                     /\ resp'.code = 200
                     /\ resp'.count = newly]_vars

\* a second delete of a resource that was deleted with success, answered 404
C22_Witness ==
    /\ resp.op = "delete"
    /\ resp.code = 404
    /\ resp.count = 0
    /\ \E d \in deleted_ok : d.resource_id = resp.resource_id /\ d.chunk_ids # {}
    /\ \E i \in 1..Len(metadata_store) :
          metadata_store[i].resource_id = resp.resource_id /\ metadata_store[i].deleted

\* C23: a delete that marked at least one chunk reports success with the count
\* whatever happens to the uploaded file: when VectorStore.delete_resource has
\* returned a positive count, the answer is 200 with that count.
C23_FileRemovalBestEffort ==
    (resp.op = "delete" /\ resp.returned /\ resp.count > 0) => resp.code = 200

\* the entry of the store as get_chunks_by_resource hands it out
ChunkOf(m) == [chunk_id |-> m.chunk_id, text |-> m.text, page_number |-> m.page_number]

\* C24: the chunks of r are answered 404 exactly when r has no live chunk,
\* because it was never uploaded or because all its chunks are soft-deleted;
\* otherwise the answer lists one ChunkDetail for every live chunk of r.
C24_ChunksNotFoundIffNoLiveChunk ==
    resp.op = "chunks" =>
        LET live == LiveOf(metadata_store, resp.resource_id)
        IN /\ resp.code \in {200, 404}
           /\ (resp.code = 404) = (live = {})
           /\ resp.code = 200 =>
                 /\ Len(resp.chunks) = Cardinality(live)
                 /\ \A i \in live :
                       Cardinality({j \in 1..Len(resp.chunks) :
                           resp.chunks[j] = ChunkOf(metadata_store[i])}) = 1

\* the chunks of a resource whose chunks are all soft-deleted, answered 404
C24_Witness ==
    /\ resp.op = "chunks"
    /\ resp.code = 404
    /\ \E i \in 1..Len(metadata_store) :
          metadata_store[i].resource_id = resp.resource_id /\ metadata_store[i].deleted
    /\ LivePos(metadata_store) # {}

\* the resource ids with at least one live entry
LiveResources(ms) == {ms[i].resource_id : i \in LivePos(ms)}

\* C25: get_all_resources gives one summary for every resource id with a live
\* entry and no other; its num_chunks is the number of live entries of the
\* resource and its uploaded_at the earliest uploaded_at among them (the
\* entries of a resource are written by its one upload and carry one upload
\* time, so the time of the first live entry is the earliest).
C25_OneSummaryPerLiveResource ==
    resp.op = "list" =>
        LET all == resp.all_resources
        IN /\ {all[j].resource_id : j \in 1..Len(all)} = LiveResources(metadata_store)
           /\ Len(all) = Cardinality(LiveResources(metadata_store))
           /\ \A j \in 1..Len(all) :
                 LET live == LiveOf(metadata_store, all[j].resource_id)
                 IN /\ all[j].num_chunks = Cardinality(live)
                    /\ \E i \in live : all[j].uploaded_at = metadata_store[i].uploaded_at
                    /\ \A i \in live : all[j].uploaded_at <= metadata_store[i].uploaded_at

\* a listing of a store with two live resources and a deleted one
C25_Witness ==
    /\ resp.op = "list"
    /\ Len(resp.all_resources) = 2
    /\ DeletedPos(metadata_store) # {}
    /\ \E j \in 1..2 : resp.all_resources[j].num_chunks > 1

\* C26: get_chunks_by_resource(r) returns the live entries of r and nothing
\* else, each once, in the order of their positions in the metadata sequence.
C26_ChunksInPositionOrder ==
    resp.op = "chunks" =>
        LET live == LiveOf(metadata_store, resp.resource_id)
        IN /\ Len(resp.chunks) = Cardinality(live)
           /\ \A i \in live :
                 resp.chunks[Cardinality({q \in live : q <= i})]
                     = ChunkOf(metadata_store[i])

\* the chunks of a resource of several chunks stored behind another resource
C26_Witness ==
    /\ resp.op = "chunks"
    /\ Len(resp.chunks) > 2
    /\ \E i \in 1..Len(metadata_store) :
          metadata_store[i].resource_id # resp.resource_id
    /\ resp.chunks[1].text # resp.chunks[2].text

\* C29: the listing returns the live resources from position offset up to, not
\* including, offset + limit, total as the number of live resources, the
\* offset and the limit of the request, and has_more exactly when
\* offset + limit < total.
C29_ListingPagination ==
    resp.op = "list" =>
        LET r     == resp.response
            total == Cardinality(LiveResources(metadata_store))
            last  == Min(resp.offset + resp.limit, total)
        IN /\ r.total = total
           /\ r.offset = resp.offset
           /\ r.limit = resp.limit
           /\ r.has_more = (resp.offset + resp.limit < total)
           /\ Len(r.resources) = Max(0, last - resp.offset)
           /\ \A j \in 1..Len(r.resources) :
                 r.resources[j] = resp.all_resources[resp.offset + j]

\* a page in the middle of the listing that ends exactly at the last resource
C29_Witness ==
    /\ resp.op = "list"
    /\ resp.offset = 1
    /\ resp.offset + resp.limit = resp.response.total
    /\ Len(resp.response.resources) = 2
    /\ ~resp.response.has_more

\* the failures of the infrastructure an upload can meet
InfrastructureErrors == {"extract", "count_mismatch", "dimension_mismatch", "save"}

\* C27: a resource that is not found is answered with a client error, and
\* every failure of the infrastructure (a count or dimension mismatch on
\* append, a failure of extraction or embedding, an I/O error in save) is
\* answered with a server error.
C27_InfrastructureFailureIsServerError ==
    /\ resp.op = "upload" =>
          /\ resp.error \in InfrastructureErrors => resp.code >= 500
          /\ resp.error \in {"validation", "no_text"} => resp.code \in 400..499
          /\ resp.error = "none" => resp.code = 200
    /\ resp.op = "delete" =>
          /\ (resp.code \in 400..499) = (resp.returned /\ resp.count = 0)
          /\ ~resp.returned => resp.code >= 500

\* the kinds of the events emitted so far
Kinds(events) == [i \in 1..Len(events) |-> events[i].event]

\* the positions of the events of a kind
At(ev, kind) == {i \in 1..Len(ev) : ev[i] = kind}

\* C28: in every event stream of chat_stream read to its end, a sources event
\* and then a query event come before any chunk event; done is emitted at most
\* once and is the last event when it is; error is emitted at most once and
\* is the last event when it is; a stream that has terminated ends with
\* exactly one of done and error.
C28_ChatEventOrder ==
    resp.op = "chat" =>
        LET ev == Kinds(resp.events)
        IN /\ \A i \in At(ev, "chunk") :
                 \E a \in At(ev, "sources"), b \in At(ev, "query") : a < b /\ b < i
           /\ Cardinality(At(ev, "done")) <= 1
           /\ At(ev, "done") \subseteq {Len(ev)}
           /\ Cardinality(At(ev, "error")) <= 1
           /\ At(ev, "error") \subseteq {Len(ev)}
           /\ (resp.pc = "end" /\ resp.code = 200) =>
                 /\ ev # <<>>
                 /\ ev[Len(ev)] \in {"done", "error"}
                 /\ Cardinality(At(ev, "done") \cup At(ev, "error")) = 1

\* a stream whose model failed after a chunk of the answer: it ends with error
C28_Witness ==
    /\ resp.op = "chat"
    /\ resp.pc = "end"
    /\ Kinds(resp.events) = <<"sources", "query", "chunk", "error">>
    /\ resp.events[1].data # <<>>

\* the chunk ids of the results of the pages, one page after the other
RECURSIVE PagedIds(_, _)
PagedIds(pages, n) ==
    IF n = 0 THEN <<>>
    ELSE PagedIds(pages, n - 1)
         \o [i \in 1..Len(pages[n].results) |-> pages[n].results[i].metadata.chunk_id]

\* C30: for a fixed store, query, filters and scorer, the pages requested one
\* after the other with offsets 0, n, 2n, ... and limit n hold no chunk twice
\* and skip none: put together they are the leading results of the one
\* request with offset 0 and the summed limit; and a page with has_more set
\* is followed by a page with at least one result.
C30_PagingConsistent ==
    (resp.op = "paging" /\ resp.pages # <<>>) =>
        LET np     == Len(resp.pages)
            paged  == PagedIds(resp.pages, np)
            single == SearchService_search(index, metadata_store, resp.scorer,
                                           resp.query, resp.filters, 0,
                                           np * resp.limit).response.results
        IN /\ \A i, j \in 1..Len(paged) : paged[i] = paged[j] => i = j
           /\ Len(paged) <= Len(single)
           /\ \A i \in 1..Len(paged) : paged[i] = single[i].metadata.chunk_id
           /\ \A p \in 1..(np - 1) :
                 resp.pages[p].has_more => resp.pages[p + 1].results # <<>>

\* C31: a delete whose save fails after entries were marked leaves no entry
\* marked in memory: the metadata in memory is what it was before the call,
\* so memory never shows as deleted a resource that the files show as live.
C31_DeleteAllOrNothingWithSave ==
    [][\A r \in ResourceIds :
        (DeleteStep(r) /\ ~resp'.returned) =>
            /\ metadata_store' = metadata_store
            /\ \A i \in 1..Len(metadata_store') :
                  metadata_store'[i].deleted => metadata_store[i].deleted]_vars

\* C32: the response of a search does not depend on top_k: a call that differs
\* from the one answered only in top_k hands the same number of candidates
\* to the reranker, asks it for the same number of results and returns the
\* same results, total_found and has_more.
C32_TopKIgnored ==
    resp.op = "search_response" =>
        \A k \in TopKs :
            LET other == SearchService_search_with_top_k(
                             index, metadata_store, resp.scorer, resp.query,
                             resp.filters, k, resp.offset, resp.limit)
            IN /\ other.response.results = resp.response.results
               /\ other.response.total_found = resp.response.total_found
               /\ other.response.has_more = resp.response.has_more
               /\ Len(other.documents) = Len(resp.documents)
               /\ CallsTo(other.calls, "rerank") = CallsTo(resp.calls, "rerank")

\* a call with top_k 1 that returned two results of more than ten candidates
C32_Witness ==
    /\ resp.op = "search_response"
    /\ resp.top_k = 1
    /\ Len(resp.response.results) = 2
    /\ Len(resp.documents) > DefaultTopK
    /\ resp.response.has_more

\* C33: every result of a search is one live recalled candidate that passed
\* the filters: its text, file_name, page_number, resource_id, chunk_id and
\* vector_score are those of that one stored chunk as it was recalled, and no
\* chunk is in the response twice.
C33_ResultsAreStoredChunks ==
    resp.op = "search_response" =>
        LET res   == resp.response.results
            cands == Candidates(resp)
        IN /\ \A i, j \in 1..Len(res) :
                 res[i].metadata.chunk_id = res[j].metadata.chunk_id => i = j
           /\ \A i \in 1..Len(res) :
                 LET from == {c \in 1..Len(cands) :
                                 cands[c].metadata.chunk_id = res[i].metadata.chunk_id}
                     at   == {p \in LivePos(metadata_store) :
                                 metadata_store[p].chunk_id = res[i].metadata.chunk_id}
                 IN /\ Cardinality(from) = 1
                    /\ Cardinality(at) = 1
                    /\ \A c \in from : res[i].vector_score = cands[c].score
                    /\ \A p \in at :
                          /\ res[i].text = metadata_store[p].text
                          /\ res[i].metadata.file_name = metadata_store[p].file_name
                          /\ res[i].metadata.page_number = metadata_store[p].page_number
                          /\ res[i].metadata.resource_id = metadata_store[p].resource_id
                          /\ res[i].vector_score =
                                Dot(index[p], normalize_L2(embed_texts(<<resp.query>>)[1]))

\* a filtered response of two results that the reranker put in another order
\* than the recall, with other chunks deleted
C33_Witness ==
    /\ resp.op = "search_response"
    /\ resp.filters # {}
    /\ DeletedPos(metadata_store) # {}
    /\ Len(resp.response.results) = 2
    /\ resp.response.results[1].vector_score < resp.response.results[2].vector_score
    /\ resp.response.results[1].text # resp.response.results[2].text

\* C34: a search, answered or failed, a listing of the resources and a
\* listing of the chunks of a resource leave the vectors, every metadata
\* entry with its deleted flag, and both files as they were.
C34_ReadsChangeNothing ==
    [][resp'.op \in {"search_response", "search_error", "list", "chunks"}
       => UNCHANGED <<index, metadata_store, disk_index, disk_meta>>]_vars

\* a search that reranked candidates of a store with deleted entries
C34_Witness ==
    /\ resp.op = "search_response"
    /\ Len(resp.documents) > 1
    /\ DeletedPos(metadata_store) # {}
    /\ disk_meta.state = "ok"

\* C35: when query rewriting fails, the stream goes on: the search runs with
\* the original query, the query event carries the original query, and an
\* error event comes only from a later failure; when retrieval or answer
\* generation fails, the stream ends with an error event and has no done
\* event.
C35_RewriteFailureTolerated ==
    resp.op = "chat" =>
        LET ev == Kinds(resp.events)
        IN /\ (resp.rewrite_failed /\ resp.pc # "rewrite") =>
                 /\ resp.rewritten_query = resp.query
                 /\ \A i \in 1..Len(resp.searched) : resp.searched[i] = resp.query
                 /\ \A i \in At(ev, "query") : resp.events[i].data = resp.query
                 /\ At(ev, "error") # {} => resp.failed # "none"
                 /\ (resp.pc = "end" /\ resp.failed = "none") =>
                       /\ At(ev, "query") # {}
                       /\ ev[Len(ev)] = "done"
                 /\ At(ev, "sources") # {} => resp.searched = <<resp.query>>
           /\ (resp.failed # "none" /\ resp.pc = "end") =>
                 /\ ev[Len(ev)] = "error"
                 /\ At(ev, "done") = {}

\* a stream whose rewriting failed and that ended with done after an answer
C35_Witness ==
    /\ resp.op = "chat"
    /\ resp.pc = "end"
    /\ resp.rewrite_failed
    /\ Kinds(resp.events) = <<"sources", "query", "chunk", "chunk", "done">>
    /\ resp.events[2].data = resp.query
    /\ resp.events[1].data # <<>>

====
